---- MODULE Spec2Model ----
(***************************************************************************)
(* GDS push management of the open62541 server: the trust-list virtual     *)
(* file, the GDS transaction, the commit (applyChangesToServer), the       *)
(* post-commit sweep (secureChannel_delayedClose) and the session janitor  *)
(* (checkSessionActive) of src/server/ua_server_ns0_gds.c, over the file   *)
(* certificate store of plugins/crypto/ua_certificategroup_common.c.       *)
(*                                                                         *)
(* A certificate or CRL (an opaque byte string) is a small natural number; *)
(* the empty byte string is 0.  A stored sub-list is a directory of files, *)
(* one per content, hence a set.  A trust list on the wire                 *)
(* (UA_TrustListDataType) has a mask and four arrays (sequences).          *)
(***************************************************************************)
EXTENDS Integers, Sequences, FiniteSets, TLC

(* ----------------------------- bounds ---------------------------------- *)
NumSessions == 2          \* sessions that exist during a run
MaxOpen == 2              \* Open / OpenWithMasks are tried while fewer contexts exist
MaxCertInfos == 1         \* UpdateCertificate is tried while fewer updates are staged
MaxDelayed == 1           \* ApplyChanges/RemoveCertificate are tried while fewer sweeps wait
MaxTime == 1              \* the wall clock runs from 0 to MaxTime
MaxFailAt == 1            \* a failing store call fails at its first .. MaxFailAt-th file write
MaxFailUpdate == 2        \* a failing commit fails at its first .. MaxFailUpdate-th key update

(* ------------------------- program constants --------------------------- *)
UA_OPENFILEMODE_READ == 1
UA_OPENFILEMODE_WRITE == 2
UA_OPENFILEMODE_ERASEEXISTING == 4
UA_TRUSTLISTMASKS_TRUSTEDCERTIFICATES == 1
UA_TRUSTLISTMASKS_TRUSTEDCRLS == 2
UA_TRUSTLISTMASKS_ISSUERCERTIFICATES == 4
UA_TRUSTLISTMASKS_ISSUERCRLS == 8
UA_TRUSTLISTMASKS_ALL == 15
UINT16_SIZE == 65536      \* UA_UInt16 openCount wraps modulo 2^16

WRITE_ERASE == UA_OPENFILEMODE_WRITE + UA_OPENFILEMODE_ERASEEXISTING

Sessions == 1..NumSessions
NullSession == 0          \* the null NodeId of a cleared transaction

DefaultApplicationGroup == "DefaultApplicationGroup"
DefaultUserTokenGroup == "DefaultUserTokenGroup"
Groups == {DefaultApplicationGroup, DefaultUserTokenGroup}

(* The certificates and CRLs of the runs.  CertA, CertD are self-signed    *)
(* end-entity certificates, CertCA is a CA certificate (keyCertSign and    *)
(* cRLSign), CertB is an end-entity certificate issued by CertCA, CrlCA    *)
(* is a CRL issued by CertCA.                                              *)
CertA == 1
CertB == 2
CertCA == 3
CertD == 4
CrlCA == 5
NoCert == 0
\* a self-signed end-entity certificate whose validity has ended
CertOld == 8
\* the application instance certificate the server starts with, and a new one
OldServerCert == 6
NewServerCert == 7

RsaMinApplicationCertificateType == "RsaMin"
RsaSha256ApplicationCertificateType == "RsaSha256"

(* --------------------------- small helpers ----------------------------- *)
HasBit(mask, bit) == (mask \div bit) % 2 = 1

RECURSIVE SetToSeq(_)
\* a directory listed in ascending order of content
SetToSeq(S) ==
    IF S = {} THEN <<>>
    ELSE LET m == CHOOSE x \in S : \A y \in S : x <= y
         IN <<m>> \o SetToSeq(S \ {m})

SeqToSet(q) == {q[i] : i \in 1..Len(q)}

RemoveAt(q, i) == SubSeq(q, 1, i - 1) \o SubSeq(q, i + 1, Len(q))

EmptyStore ==
    [trustedCertificates |-> {}, trustedCrls |-> {},
     issuerCertificates |-> {}, issuerCrls |-> {}]

\* memset(&trustList, 0, sizeof(UA_TrustListDataType)) with the mask set
EmptyTrustList(mask) ==
    [specifiedLists |-> mask, trustedCertificates |-> <<>>, trustedCrls |-> <<>>,
     issuerCertificates |-> <<>>, issuerCrls |-> <<>>]

(* ------------------- the file certificate store ------------------------ *)
\* the four sub-lists in the order the store functions handle them
ListFields == <<"trustedCertificates", "trustedCrls", "issuerCertificates", "issuerCrls">>
ListBits == <<UA_TRUSTLISTMASKS_TRUSTEDCERTIFICATES, UA_TRUSTLISTMASKS_TRUSTEDCRLS,
              UA_TRUSTLISTMASKS_ISSUERCERTIFICATES, UA_TRUSTLISTMASKS_ISSUERCRLS>>

\* loadList for each sub-list the mask selects; the mask is left as passed
FileCertStore_getTrustList(st, mask) ==
    [specifiedLists |-> mask,
     trustedCertificates |->
        IF HasBit(mask, UA_TRUSTLISTMASKS_TRUSTEDCERTIFICATES)
        THEN SetToSeq(st.trustedCertificates) ELSE <<>>,
     trustedCrls |->
        IF HasBit(mask, UA_TRUSTLISTMASKS_TRUSTEDCRLS)
        THEN SetToSeq(st.trustedCrls) ELSE <<>>,
     issuerCertificates |->
        IF HasBit(mask, UA_TRUSTLISTMASKS_ISSUERCERTIFICATES)
        THEN SetToSeq(st.issuerCertificates) ELSE <<>>,
     issuerCrls |->
        IF HasBit(mask, UA_TRUSTLISTMASKS_ISSUERCRLS)
        THEN SetToSeq(st.issuerCrls) ELSE <<>>]

\* a check that looks at the trusted certificates only
checkCertificateInTrusted(st, certificate) ==
    certificate \in st.trustedCertificates

\* true when the byte string is a stored trusted or issuer certificate
checkCertificateInList(st, certificate) ==
    certificate \in (st.trustedCertificates \cup st.issuerCertificates)

RECURSIVE storeListStrict(_, _, _, _, _, _)
\* a storeList that refuses a certificate that is already stored
storeListStrict(st, field, list, idx, failAt, n) ==
    IF idx > Len(list) THEN [st |-> st, ret |-> "Good", n |-> n]
    ELSE IF checkCertificateInList(st, list[idx])
         THEN [st |-> st, ret |-> "BadInternalError", n |-> n]
    ELSE storeListStrict([st EXCEPT ![field] = @ \cup {list[idx]}],
                         field, list, idx + 1, failAt, n + 1)

RECURSIVE storeList(_, _, _, _, _, _)
\* Writes list[idx..] into the directory `field`.  n counts the file writes
\* done so far in this store call; the write number failAt fails (0: none).
storeList(st, field, list, idx, failAt, n) ==
    IF idx > Len(list) THEN [st |-> st, ret |-> "Good", n |-> n]
    ELSE IF checkCertificateInList(st, list[idx])
         THEN storeList(st, field, list, idx + 1, failAt, n)
    ELSE IF n + 1 = failAt
         THEN [st |-> st, ret |-> "BadInternalError", n |-> n + 1]
    ELSE storeList([st EXCEPT ![field] = @ \cup {list[idx]}],
                   field, list, idx + 1, failAt, n + 1)

\* removeAllFilesFromDir, then storeList
newList(st, field, list, failAt, n) ==
    storeList([st EXCEPT ![field] = {}], field, list, 1, failAt, n)

RECURSIVE setLists(_, _, _, _, _)
setLists(st, trustList, k, failAt, n) ==
    IF k > Len(ListFields) THEN [st |-> st, ret |-> "Good", n |-> n]
    ELSE IF ~HasBit(trustList.specifiedLists, ListBits[k])
         THEN setLists(st, trustList, k + 1, failAt, n)
    ELSE LET r == newList(st, ListFields[k], trustList[ListFields[k]], failAt, n)
         IN IF r.ret # "Good" THEN r
            ELSE setLists(r.st, trustList, k + 1, failAt, r.n)

\* [st, ret]: the store and the status after setTrustList
FileCertStore_setTrustList(st, trustList, failAt) ==
    LET r == setLists(st, trustList, 1, failAt, 0)
    IN [st |-> r.st, ret |-> r.ret]

RECURSIVE addLists(_, _, _, _, _)
addLists(st, trustList, k, failAt, n) ==
    IF k > Len(ListFields) THEN [st |-> st, ret |-> "Good", n |-> n]
    ELSE IF ~HasBit(trustList.specifiedLists, ListBits[k])
         THEN addLists(st, trustList, k + 1, failAt, n)
    ELSE LET r == storeList(st, ListFields[k], trustList[ListFields[k]], 1, failAt, n)
         IN IF r.ret # "Good" THEN r
            ELSE addLists(r.st, trustList, k + 1, failAt, r.n)

FileCertStore_addToTrustList(st, trustList, failAt) ==
    LET r == addLists(st, trustList, 1, failAt, 0)
    IN [st |-> r.st, ret |-> r.ret]

\* one sub-list of the group's trust list without the items of the same
\* sub-list of trustList; specifiedLists is not looked at
RemoveList_(stored, trustList, k) ==
    SelectSeq(stored, LAMBDA item : item \notin SeqToSet(trustList[ListFields[k]]))

\* FileCertStore_removeFromTrustList: the whole trust list is read, the items
\* are taken out of it, and what is left is written back with setTrustList,
\* whose status is dropped
FileCertStore_removeFromTrustList(st, trustList, failAt) ==
    LET groupTrustList == FileCertStore_getTrustList(st, UA_TRUSTLISTMASKS_ALL)
        left == [groupTrustList EXCEPT
                    !.trustedCertificates = RemoveList_(@, trustList, 1),
                    !.trustedCrls = RemoveList_(@, trustList, 2),
                    !.issuerCertificates = RemoveList_(@, trustList, 3),
                    !.issuerCrls = RemoveList_(@, trustList, 4)]
    IN [st |-> FileCertStore_setTrustList(st, left, failAt).st, ret |-> "Good"]

(* ------------- the binary encoding of a trust list --------------------- *)
\* an array: its length, then the byte strings (a byte string is one item)
EncodeArray(q) == <<Len(q)>> \o q

\* UA_encodeBinary of a UA_TrustListDataType: the mask, then the four arrays
UA_encodeBinary(trustList) ==
    <<trustList.specifiedLists>> \o EncodeArray(trustList.trustedCertificates)
        \o EncodeArray(trustList.trustedCrls)
        \o EncodeArray(trustList.issuerCertificates)
        \o EncodeArray(trustList.issuerCrls)

\* [ok, arr, pos]: the array that starts at data[pos] and the position after it
DecodeArray(data, pos) ==
    IF pos > Len(data) THEN [ok |-> FALSE, arr |-> <<>>, pos |-> pos]
    ELSE LET n == data[pos]
         IN IF pos + n > Len(data) THEN [ok |-> FALSE, arr |-> <<>>, pos |-> pos]
            ELSE [ok |-> TRUE, arr |-> SubSeq(data, pos + 1, pos + n), pos |-> pos + n + 1]

\* UA_decodeBinary: [ok, trustList]; bytes after the value are ignored
UA_decodeBinary(data) ==
    IF Len(data) = 0 THEN [ok |-> FALSE, trustList |-> EmptyTrustList(0)]
    ELSE LET a1 == DecodeArray(data, 2)
             a2 == DecodeArray(data, a1.pos)
             a3 == DecodeArray(data, a2.pos)
             a4 == DecodeArray(data, a3.pos)
         IN IF a1.ok /\ a2.ok /\ a3.ok /\ a4.ok
            THEN [ok |-> TRUE,
                  trustList |-> [specifiedLists |-> data[1],
                                 trustedCertificates |-> a1.arr, trustedCrls |-> a2.arr,
                                 issuerCertificates |-> a3.arr, issuerCrls |-> a4.arr]]
            ELSE [ok |-> FALSE, trustList |-> EmptyTrustList(0)]

(* ------------------ certificates, as the checks see them --------------- *)
\* UA_CertificateUtils_checkCA: Good exactly for a CA certificate
UA_CertificateUtils_checkCA(certificate) ==
    IF certificate = CertCA THEN "Good" ELSE "BadSecurityChecksFailed"

\* the certificate that issued a CRL
CrlIssuer(crl) == IF crl = CrlCA THEN CertCA ELSE NoCert

\* the issuer of a certificate; a self-signed certificate is its own issuer
CertIssuer(certificate) == IF certificate = CertB THEN CertCA ELSE certificate

\* Characters are their ASCII codes.  The SHA-1 thumbprint is printed with
\* "%.2X": upper-case hexadecimal digits (here two of them, not forty).
UA_CertificateUtils_getThumbprint(certificate) == <<65 + certificate, 48 + certificate>>

ToLower(ch) == IF ch >= 65 /\ ch <= 90 THEN ch + 32 ELSE ch

\* a comparison that tells upper case from lower case
compareThumbprintExact(str1, str2) == str1 = str2

compareThumbprint(str1, str2) ==
    /\ Len(str1) = Len(str2)
    /\ \A i \in 1..Len(str1) : ToLower(str1[i]) = ToLower(str2[i])

(* ---------------------- the GDS transaction ---------------------------- *)
FreshTransaction ==
    [state |-> "FRESH", sessionId |-> NullSession, certGroups |-> <<>>,
     certificateInfos |-> <<>>]

\* binds the transaction to the session and makes it PENDING
UA_GDSTransaction_init(sessionId) ==
    [state |-> "PENDING", sessionId |-> sessionId, certGroups |-> <<>>,
     certificateInfos |-> <<>>]

\* drops the staged state; the transaction is FRESH again
UA_GDSTransaction_clear(t) == FreshTransaction

\* index of the staged clone of the group in t.certGroups, 0 when there is none
StagedIndex(t, g) ==
    IF \E i \in 1..Len(t.certGroups) : t.certGroups[i].certificateGroupId = g
    THEN CHOOSE i \in 1..Len(t.certGroups) : t.certGroups[i].certificateGroupId = g
    ELSE 0

\* The transaction with a staged clone of the group: the clone it already has,
\* or a new one that copies the live trust list `live` of the group.
UA_GDSTransaction_getCertificateGroup(t, g, live) ==
    IF StagedIndex(t, g) # 0 THEN t
    ELSE [t EXCEPT !.certGroups = Append(@, [certificateGroupId |-> g, trustList |-> live])]

UA_GDSTransaction_addCertificateInfo(t, certificateTypeId, certificate, privateKey) ==
    [t EXCEPT !.certificateInfos =
        Append(@, [certificateType |-> certificateTypeId, certificate |-> certificate,
                   privateKey |-> privateKey])]

\* setTrustList of the staged (in-memory) clone: replace the selected sub-lists
Staged_setTrustList(st, trustList) ==
    [f \in DOMAIN st |->
        IF \E k \in 1..Len(ListFields) :
              ListFields[k] = f /\ HasBit(trustList.specifiedLists, ListBits[k])
        THEN SeqToSet(trustList[f]) ELSE st[f]]

\* removeFromTrustList of the staged clone: subtract the selected sub-lists
Staged_removeFromTrustList(st, trustList) ==
    [f \in DOMAIN st |->
        IF \E k \in 1..Len(ListFields) :
              ListFields[k] = f /\ HasBit(trustList.specifiedLists, ListBits[k])
        THEN st[f] \ SeqToSet(trustList[f]) ELSE st[f]]

\* the CRLs of the trusted (or issuer) CRL list that the certificate issued
getCertificateCrls(st, certificate, isTrusted) ==
    SetToSeq({crl \in (IF isTrusted THEN st.trustedCrls ELSE st.issuerCrls) :
                 CrlIssuer(crl) = certificate})

(* --------------------------- the state --------------------------------- *)
VARIABLES
    sessions,               \* server->sessions: the ids of the live sessions
    transaction,            \* server->transaction
    fileInfoContext,        \* fileInfoContext[2]: per group openCount, lastUpdateTime, fileContext
    checkSessionCallbackId, \* 0, or the id of the scheduled janitor callback
    store,                  \* the live trust lists: secureChannelPKI and sessionPKI
    rejected,               \* the files of the rejected directory of each group
    endpoints,              \* server->config.endpoints[i].serverCertificate
    policies,               \* the certificate of each security policy
    channels,               \* server->channels: the state of each secure channel
    delayed,                \* the event loop's delayed callbacks: the `changes` of each
    now,                    \* UA_DateTime_now()
    last                    \* the call or callback that made the last step, with its result

vars == <<sessions, transaction, fileInfoContext, checkSessionCallbackId, store,
          rejected, endpoints, policies, channels, delayed, now, last>>

\* the endpoints and the security policy of each (getSecurityPolicyByUri)
EndpointPolicies == <<"Basic256Sha256", "Basic256Sha256", "Basic128Rsa15">>
Endpoints == 1..Len(EndpointPolicies)
EndpointPolicy(e) == EndpointPolicies[e]
Policies == {"Basic256Sha256", "Basic128Rsa15"}
PolicyCertificateTypeId(sp) ==
    IF sp = "Basic256Sha256" THEN RsaSha256ApplicationCertificateType
    ELSE RsaMinApplicationCertificateType

\* the secure channels and the certificate of the peer of each
Channels == {"chA", "chD"}
RemoteCertificate(ch) == IF ch = "chA" THEN CertA ELSE CertD

\* The record kept in `last`: the method (or callback) that made the step, the
\* status it returned, and what selects its branch: the mode of an Open, the
\* mode of the context a Close closed (else 0), and the number of staged
\* groups a Close found (else 0).
Call(op, mode, staged, ret) == [op |-> op, mode |-> mode, staged |-> staged, ret |-> ret]

InitialApplicationStore ==
    [trustedCertificates |-> {CertA, CertD}, trustedCrls |-> {},
     issuerCertificates |-> {CertCA}, issuerCrls |-> {CrlCA}]

Init ==
    /\ sessions = Sessions
    /\ transaction = FreshTransaction
    /\ fileInfoContext =
          [g \in Groups |-> [openCount |-> 0, lastUpdateTime |-> 0, fileContext |-> <<>>]]
    /\ checkSessionCallbackId = 0
    /\ store = [g \in Groups |->
                  IF g = DefaultApplicationGroup THEN InitialApplicationStore ELSE EmptyStore]
    /\ rejected = [g \in Groups |-> <<>>]
    /\ endpoints = [e \in Endpoints |-> OldServerCert]
    /\ policies = [sp \in Policies |-> OldServerCert]
    /\ channels = [ch \in Channels |-> "OPEN"]
    /\ delayed = <<>>
    /\ now = 0
    /\ last = Call("init", 0, 0, "Good")

(* ------------------------ file handles --------------------------------- *)
Handles(fileInfo) == {fileInfo.fileContext[i].fileHandle : i \in 1..Len(fileInfo.fileContext)}

\* an id taken from the number of contexts instead of the handles in use
createFileHandleIdByCount(fileInfo) == Len(fileInfo.fileContext) + 1

\* the smallest id from 1 upward that no context of the FileInfo has
createFileHandleId(fileInfo) ==
    CHOOSE id \in 1..(Len(fileInfo.fileContext) + 1) :
        /\ id \notin Handles(fileInfo)
        /\ \A j \in 1..(id - 1) : j \in Handles(fileInfo)

\* a lookup by the handle alone, whoever opened the context
getFileContextAnySession(fileInfo, sessionId, fileHandle) ==
    LET hit == {i \in 1..Len(fileInfo.fileContext) :
                   fileInfo.fileContext[i].fileHandle = fileHandle}
    IN IF hit = {} THEN 0 ELSE CHOOSE i \in hit : \A j \in hit : i <= j

\* index in the list of the first context with this handle and session, 0 for NULL
getFileContext(fileInfo, sessionId, fileHandle) ==
    LET hit == {i \in 1..Len(fileInfo.fileContext) :
                   /\ fileInfo.fileContext[i].fileHandle = fileHandle
                   /\ fileInfo.fileContext[i].sessionId = sessionId}
    IN IF hit = {} THEN 0 ELSE CHOOSE i \in hit : \A j \in hit : i <= j

\* the contexts that exist, over all groups
OpenContexts ==
    Len(fileInfoContext[DefaultApplicationGroup].fileContext)
        + Len(fileInfoContext[DefaultUserTokenGroup].fileContext)

\* UA_UInt16 arithmetic of openCount
IncOpenCount(n) == (n + 1) % UINT16_SIZE
DecOpenCount(n) == (n + UINT16_SIZE - 1) % UINT16_SIZE

\* LIST_INSERT_HEAD and openCount += 1
InsertContext(fileInfo, fileContext) ==
    [fileInfo EXCEPT !.openCount = IncOpenCount(@),
                     !.fileContext = <<fileContext>> \o @]

\* LIST_REMOVE and openCount -= 1
RemoveContext(fileInfo, i) ==
    [fileInfo EXCEPT !.openCount = DecOpenCount(@),
                     !.fileContext = RemoveAt(@, i)]

\* UA_Server_addRepeatedCallback when no janitor callback is scheduled
ScheduleCheckSession == IF checkSessionCallbackId = 0 THEN 1 ELSE checkSessionCallbackId

(* --------------------------- Open --------------------------------------- *)
\* the new context: the snapshot of the trust list, the handle, the owner
NewFileContext(fileInfo, sessionId, mode, mask, g) ==
    [file |-> UA_encodeBinary(FileCertStore_getTrustList(store[g], mask)),
     fileHandle |-> createFileHandleId(fileInfo),
     sessionId |-> sessionId,
     currentPos |-> 0,
     openFileMode |-> mode]

\* openTrustList's checks without the test for a running transaction
OpenCheckNoPending(g, fileOpenMode) ==
    IF fileOpenMode = WRITE_ERASE
    THEN IF fileInfoContext[g].openCount # 0 THEN "BadNotWritable" ELSE "Good"
    ELSE IF fileOpenMode = UA_OPENFILEMODE_READ THEN "Good"
    ELSE "BadInvalidState"

\* the status openTrustList returns before it changes anything, "Good" if none
OpenCheck(g, fileOpenMode) ==
    IF transaction.state = "PENDING" THEN "BadTransactionPending"
    ELSE IF fileOpenMode = WRITE_ERASE
         THEN IF fileInfoContext[g].openCount # 0 THEN "BadNotWritable" ELSE "Good"
    ELSE IF fileOpenMode = UA_OPENFILEMODE_READ THEN "Good"
    ELSE "BadInvalidState"

openTrustList(sessionId, g, fileOpenMode, limit) ==
    LET ret == OpenCheck(g, fileOpenMode)
        fileContext == NewFileContext(fileInfoContext[g], sessionId, fileOpenMode,
                                      UA_TRUSTLISTMASKS_ALL, g)
    IN IF ret # "Good"
       THEN /\ last' = Call("Open", fileOpenMode, 0, ret)
            /\ fileInfoContext' = fileInfoContext
            /\ UNCHANGED <<sessions, transaction, checkSessionCallbackId,
                           store, rejected, endpoints, policies, channels, delayed, now>>
       ELSE /\ OpenContexts < limit
            /\ transaction' = IF fileOpenMode = WRITE_ERASE
                              THEN UA_GDSTransaction_init(sessionId) ELSE transaction
            /\ checkSessionCallbackId' = ScheduleCheckSession
            /\ fileInfoContext' =
                  [fileInfoContext EXCEPT
                      ![g] = InsertContext(@, fileContext)]
            /\ last' = Call("Open", fileOpenMode, 0, "Good")
            /\ UNCHANGED <<sessions, store, rejected, endpoints, policies, channels,
                           delayed, now>>

(* ------------------------ OpenWithMasks --------------------------------- *)
openTrustListWithMask(sessionId, g, mask, limit) ==
    LET fileContext == NewFileContext(fileInfoContext[g], sessionId,
                                      UA_OPENFILEMODE_READ, mask, g)
    IN IF transaction.state = "PENDING"
       THEN /\ last' = Call("OpenWithMasks", 0, 0, "BadTransactionPending")
            /\ fileInfoContext' = fileInfoContext
            /\ UNCHANGED <<sessions, transaction, checkSessionCallbackId,
                           store, rejected, endpoints, policies, channels, delayed, now>>
       ELSE /\ OpenContexts < limit
            /\ checkSessionCallbackId' = ScheduleCheckSession
            /\ fileInfoContext' =
                  [fileInfoContext EXCEPT
                      ![g] = InsertContext(@, fileContext)]
            /\ last' = Call("OpenWithMasks", 0, 0, "Good")
            /\ UNCHANGED <<sessions, transaction, store, rejected, endpoints, policies,
                           channels, delayed, now>>

(* --------------------------- Write -------------------------------------- *)
\* the status writeTrustList returns before it stages anything, "Good" if none
WriteCheck(sessionId, g, fileHandle, data) ==
    LET i == getFileContext(fileInfoContext[g], sessionId, fileHandle)
    IN IF i = 0 THEN "BadInternalError"
       ELSE IF fileInfoContext[g].fileContext[i].openFileMode # WRITE_ERASE
            THEN "BadInvalidState"
       ELSE IF ~UA_decodeBinary(data).ok THEN "BadInternalError"
       ELSE "Good"

writeTrustList(sessionId, g, fileHandle, data) ==
    LET ret == IF Len(data) = 0 THEN "Good"
               ELSE WriteCheck(sessionId, g, fileHandle, data)
        t == UA_GDSTransaction_getCertificateGroup(transaction, g, store[g])
        k == StagedIndex(t, g)
    IN /\ last' = Call("Write", 0, 0, ret)
       /\ transaction' =
             IF Len(data) = 0 \/ ret # "Good" THEN transaction
             ELSE [t EXCEPT !.certGroups[k].trustList =
                      Staged_setTrustList(@, UA_decodeBinary(data).trustList)]
       /\ UNCHANGED <<sessions, fileInfoContext, checkSessionCallbackId, store, rejected,
                      endpoints, policies, channels, delayed, now>>

(* --------------------------- Close -------------------------------------- *)
\* a close that keeps the transaction whatever the mode of the context
CloseTransactionKeep(openFileMode) == transaction

\* the transaction after the close of a context opened in this mode: a close
\* of a context opened for writing cancels the current transaction
CloseTransaction(openFileMode) ==
    IF openFileMode = WRITE_ERASE THEN UA_GDSTransaction_clear(transaction)
    ELSE transaction

closeTrustList(sessionId, g, fileHandle) ==
    LET i == getFileContext(fileInfoContext[g], sessionId, fileHandle)
    IN IF i = 0
       THEN /\ last' = Call("Close", 0, 0, "BadInternalError")
            /\ UNCHANGED <<sessions, transaction, fileInfoContext, checkSessionCallbackId,
                           store, rejected, endpoints, policies, channels, delayed, now>>
       ELSE /\ transaction' = CloseTransaction(fileInfoContext[g].fileContext[i].openFileMode)
            /\ fileInfoContext' = [fileInfoContext EXCEPT ![g] = RemoveContext(@, i)]
            /\ last' = Call("Close", fileInfoContext[g].fileContext[i].openFileMode,
                             Len(transaction.certGroups), "Good")
            /\ UNCHANGED <<sessions, checkSessionCallbackId, store, rejected, endpoints,
                           policies, channels, delayed, now>>

(* ------------------------ CloseAndUpdate -------------------------------- *)
closeAndUpdateTrustList(sessionId, g, fileHandle) ==
    LET i == getFileContext(fileInfoContext[g], sessionId, fileHandle)
    IN IF i = 0
       THEN /\ last' = Call("CloseAndUpdate", 0, 0, "BadInternalError")
            /\ fileInfoContext' = fileInfoContext
            /\ UNCHANGED <<sessions, transaction, checkSessionCallbackId,
                           store, rejected, endpoints, policies, channels, delayed, now>>
       ELSE /\ fileInfoContext' =
                  [fileInfoContext EXCEPT ![g] = RemoveContext(@, i)]
            /\ last' = Call("CloseAndUpdate", 0, 0, "Good")
            /\ UNCHANGED <<sessions, transaction, checkSessionCallbackId, store, rejected,
                           endpoints, policies, channels, delayed, now>>

(* ------------------- committing the transaction ------------------------- *)
UA_GDSTRANSACTIONCHANGES_NOTHING == "NOTHING"
UA_GDSTRANSACTIONCHANGES_TRUSTLIST == "TRUSTLIST"
UA_GDSTRANSACTIONCHANGES_CERTIFICATE == "CERTIFICATE"
UA_GDSTRANSACTIONCHANGES_BOTH == "BOTH"

\* getTrustList of a staged (in-memory) clone
Staged_getTrustList(st, mask) == FileCertStore_getTrustList(st, mask)

RECURSIVE commitGroups(_, _, _, _, _, _)
\* The first loop of applyChangesToServer from staged group i on: the live
\* setTrustList of each staged group.  The setTrustList of the staged group
\* number failGroup fails at its write number failAt.
commitGroups(t, st, fic, i, failGroup, failAt) ==
    IF i > Len(t.certGroups) THEN [store |-> st, fic |-> fic, ret |-> "Good"]
    ELSE LET g == t.certGroups[i].certificateGroupId
             trustList == Staged_getTrustList(t.certGroups[i].trustList,
                                              UA_TRUSTLISTMASKS_ALL)
             r == FileCertStore_setTrustList(st[g], trustList,
                                             IF i = failGroup THEN failAt ELSE 0)
         IN IF r.ret # "Good"
            THEN [store |-> [st EXCEPT ![g] = r.st], fic |-> fic, ret |-> r.ret]
            ELSE commitGroups(t, [st EXCEPT ![g] = r.st],
                              [fic EXCEPT ![g].lastUpdateTime = now],
                              i + 1, failGroup, failAt)

RECURSIVE commitCertificatesAll(_, _, _, _, _, _, _)
\* a second loop that does not compare the policy's certificateTypeId with
\* the staged type: every endpoint gets the staged certificate
commitCertificatesAll(t, eps, pols, i, e, failUpdate, n) ==
    IF i > Len(t.certificateInfos)
    THEN [endpoints |-> eps, policies |-> pols, ret |-> "Good"]
    ELSE IF e > Len(EndpointPolicies)
         THEN commitCertificatesAll(t, eps, pols, i + 1, 1, failUpdate, n)
    ELSE IF n + 1 = failUpdate
         THEN [endpoints |-> eps, policies |-> pols, ret |-> "BadInternalError"]
    ELSE commitCertificatesAll(t,
            [eps EXCEPT ![e] = t.certificateInfos[i].certificate],
            [pols EXCEPT ![EndpointPolicy(e)] = t.certificateInfos[i].certificate],
            i, e + 1, failUpdate, n + 1)

RECURSIVE commitCertificates(_, _, _, _, _, _, _)
\* The second loop from certificateInfos[i] and endpoint e on; n counts the
\* calls of updateCertificateAndPrivateKey, the call number failUpdate fails.
commitCertificates(t, eps, pols, i, e, failUpdate, n) ==
    IF i > Len(t.certificateInfos)
    THEN [endpoints |-> eps, policies |-> pols, ret |-> "Good"]
    ELSE IF e > Len(EndpointPolicies) THEN commitCertificates(t, eps, pols, i + 1, 1, failUpdate, n)
    ELSE IF PolicyCertificateTypeId(EndpointPolicy(e)) # t.certificateInfos[i].certificateType
         THEN commitCertificates(t, eps, pols, i, e + 1, failUpdate, n)
    ELSE IF n + 1 = failUpdate
         THEN [endpoints |-> eps, policies |-> pols, ret |-> "BadInternalError"]
    ELSE commitCertificates(t,
            [eps EXCEPT ![e] = t.certificateInfos[i].certificate],
            [pols EXCEPT ![EndpointPolicy(e)] = t.certificateInfos[i].certificate],
            i, e + 1, failUpdate, n + 1)

\* *changes when the delayed callback is added
Changes(t) ==
    IF Len(t.certificateInfos) > 0
    THEN IF Len(t.certGroups) > 0 THEN UA_GDSTRANSACTIONCHANGES_BOTH
         ELSE UA_GDSTRANSACTIONCHANGES_CERTIFICATE
    ELSE IF Len(t.certGroups) > 0 THEN UA_GDSTRANSACTIONCHANGES_TRUSTLIST
    ELSE UA_GDSTRANSACTIONCHANGES_NOTHING

\* applyChangesToServer on the transaction t: the status and everything it
\* leaves behind.  A failed setTrustList goes to cleanup (the transaction is
\* cleared); a failed updateCertificateAndPrivateKey returns at once.
applyChangesToServer(t, failGroup, failAt, failUpdate) ==
    LET gr == commitGroups(t, store, fileInfoContext, 1, failGroup, failAt)
        cr == commitCertificates(t, endpoints, policies, 1, 1, failUpdate, 0)
    IN IF gr.ret # "Good"
       THEN [ret |-> gr.ret, store |-> gr.store, fic |-> gr.fic,
             endpoints |-> endpoints, policies |-> policies,
             transaction |-> UA_GDSTransaction_clear(t), delayed |-> delayed]
       ELSE IF cr.ret # "Good"
       THEN [ret |-> cr.ret, store |-> gr.store, fic |-> gr.fic,
             endpoints |-> cr.endpoints, policies |-> cr.policies,
             transaction |-> t, delayed |-> delayed]
       ELSE [ret |-> "Good", store |-> gr.store, fic |-> gr.fic,
             endpoints |-> cr.endpoints, policies |-> cr.policies,
             transaction |-> t, delayed |-> Append(delayed, Changes(t))]

(* ------------------------- ApplyChanges --------------------------------- *)
\* applyChanges' checks with the owner compared before the state is looked at
ApplyCheckOwnerFirst(sessionId) ==
    IF transaction.sessionId # sessionId THEN "BadUserAccessDenied"
    ELSE IF transaction.state = "FRESH" THEN "BadNothingToDo"
    ELSE IF \E i \in 1..Len(transaction.certGroups) :
               fileInfoContext[transaction.certGroups[i].certificateGroupId].openCount > 0
         THEN "BadInvalidState"
    ELSE "Good"

\* applyChanges' checks without the loop over the staged groups' open counts
ApplyCheckNoOpenCount(sessionId) ==
    IF transaction.state = "FRESH" THEN "BadNothingToDo"
    ELSE IF transaction.sessionId # sessionId THEN "BadUserAccessDenied"
    ELSE "Good"

\* the status applyChanges returns before it commits anything, "Good" if none
ApplyCheck(sessionId) ==
    IF transaction.state = "FRESH" THEN "BadNothingToDo"
    ELSE IF transaction.sessionId # sessionId THEN "BadUserAccessDenied"
    ELSE IF \E i \in 1..Len(transaction.certGroups) :
               fileInfoContext[transaction.certGroups[i].certificateGroupId].openCount > 0
         THEN "BadInvalidState"
    ELSE "Good"

applyChanges(sessionId, failGroup, failAt, failUpdate, limit) ==
    LET ret == ApplyCheck(sessionId)
        r == applyChangesToServer(transaction, failGroup, failAt, failUpdate)
    IN IF ret # "Good"
       THEN /\ last' = Call("ApplyChanges", 0, 0, ret)
            /\ fileInfoContext' = fileInfoContext
            /\ UNCHANGED <<sessions, transaction, checkSessionCallbackId, store, rejected,
                           endpoints, policies, channels, delayed, now>>
       ELSE /\ Len(delayed) < limit
            /\ last' = Call("ApplyChanges", 0, 0, r.ret)
            /\ fileInfoContext' = r.fic
            /\ store' = r.store
            /\ endpoints' = r.endpoints
            /\ policies' = r.policies
            /\ transaction' = r.transaction
            /\ delayed' = r.delayed
            /\ UNCHANGED <<sessions, checkSessionCallbackId, rejected, channels, now>>

(* ----------------------- UpdateCertificate ------------------------------ *)
\* the status updateCertificate returns for its inputs alone, "Good" if none;
\* keyPairOk is the result of UA_CertificateUtils_checkKeyPair
UpdateCheck(certificateGroupId, certificateTypeId, privateKeyFormat, keyPairOk) ==
    IF certificateGroupId # DefaultApplicationGroup THEN "BadNotSupported"
    ELSE IF certificateTypeId \notin {RsaSha256ApplicationCertificateType,
                                      RsaMinApplicationCertificateType}
         THEN "BadNotSupported"
    ELSE IF privateKeyFormat \notin {"PEM", "PFX"} THEN "BadNotSupported"
    ELSE IF ~keyPairOk THEN "BadNotSupported"
    ELSE "Good"

\* the comparison of the transaction's session with the caller without effect
OwnerCheckNone(t, sessionId) == "Good"

\* the status of the comparison of the transaction's session with the caller
OwnerCheck(t, sessionId) ==
    IF t.sessionId # sessionId THEN "BadTransactionPending" ELSE "Good"

updateCertificate(sessionId, certificateGroupId, certificateTypeId, certificate, privateKeyFormat, keyPairOk, limit) ==
    LET ret == UpdateCheck(certificateGroupId, certificateTypeId, privateKeyFormat, keyPairOk)
        t == IF transaction.state = "FRESH" THEN UA_GDSTransaction_init(sessionId)
             ELSE transaction
    IN /\ fileInfoContext' = fileInfoContext
       /\ UNCHANGED <<sessions, store, rejected, endpoints, policies, channels, delayed, now>>
       /\ IF ret # "Good"
          THEN /\ last' = Call("UpdateCertificate", 0, 0, ret)
               /\ UNCHANGED <<transaction, checkSessionCallbackId>>
          ELSE IF OwnerCheck(t, sessionId) # "Good"
          THEN /\ last' = Call("UpdateCertificate", 0, 0, OwnerCheck(t, sessionId))
               /\ transaction' = t
               /\ checkSessionCallbackId' = ScheduleCheckSession
          ELSE /\ Len(t.certificateInfos) < limit
               /\ last' = Call("UpdateCertificate", 0, 0, "Good")
               /\ transaction' = UA_GDSTransaction_addCertificateInfo(
                                     t, certificateTypeId, certificate, "key")
               /\ checkSessionCallbackId' = ScheduleCheckSession

(* ------------------------- AddCertificate ------------------------------- *)
\* the status addCertificate returns before it touches the store, "Good" if none
AddCheck(g, certificate, isTrustedCertificate) ==
    IF ~isTrustedCertificate \/ certificate = NoCert THEN "BadCertificateInvalid"
    ELSE IF transaction.state # "FRESH" THEN "BadTransactionPending"
    ELSE IF UA_CertificateUtils_checkCA(certificate) = "Good" THEN "BadInvalidArgument"
    ELSE IF fileInfoContext[g].openCount > 0 THEN "BadInvalidState"
    ELSE "Good"

addCertificate(sessionId, g, certificate, isTrustedCertificate, failAt) ==
    LET ret == AddCheck(g, certificate, isTrustedCertificate)
        trustList == [EmptyTrustList(UA_TRUSTLISTMASKS_TRUSTEDCERTIFICATES)
                         EXCEPT !.trustedCertificates = <<certificate>>]
        r == FileCertStore_addToTrustList(store[g], trustList, failAt)
    IN /\ UNCHANGED <<sessions, transaction, checkSessionCallbackId, rejected, endpoints,
                      policies, channels, delayed, now>>
       /\ IF ret # "Good"
          THEN /\ last' = Call("AddCertificate", 0, 0, ret)
               /\ fileInfoContext' = fileInfoContext
               /\ UNCHANGED store
          ELSE /\ last' = Call("AddCertificate", 0, 0, r.ret)
               /\ store' = [store EXCEPT ![g] = r.st]
               /\ fileInfoContext' =
                     IF r.ret = "Good"
                     THEN [fileInfoContext EXCEPT ![g].lastUpdateTime = now]
                     ELSE fileInfoContext

(* ------------------------ RemoveCertificate ----------------------------- *)
\* the first certificate of the list whose thumbprint matches, NoCert if none
FindByThumbprint(certificates, thumbprint) ==
    LET hit == {i \in 1..Len(certificates) :
                   compareThumbprint(thumbprint,
                                     UA_CertificateUtils_getThumbprint(certificates[i]))}
    IN IF hit = {} THEN NoCert
       ELSE certificates[CHOOSE i \in hit : \A j \in hit : i <= j]

\* the list removeCertificate takes out of the staged clone
RemoveList(g, certificate, isTrustedCertificate) ==
    LET crls == getCertificateCrls(store[g], certificate, isTrustedCertificate)
    IN IF isTrustedCertificate
       THEN [EmptyTrustList(UA_TRUSTLISTMASKS_TRUSTEDCERTIFICATES
                            + UA_TRUSTLISTMASKS_TRUSTEDCRLS)
                EXCEPT !.trustedCertificates = <<certificate>>, !.trustedCrls = crls]
       ELSE [EmptyTrustList(UA_TRUSTLISTMASKS_ISSUERCERTIFICATES
                            + UA_TRUSTLISTMASKS_ISSUERCRLS)
                EXCEPT !.issuerCertificates = <<certificate>>, !.issuerCrls = crls]

removeCertificate(sessionId, g, thumbprint, isTrustedCertificate, failAt, limit) ==
    LET trustList == FileCertStore_getTrustList(store[g], UA_TRUSTLISTMASKS_ALL)
        certificate == FindByThumbprint(IF isTrustedCertificate
                                        THEN trustList.trustedCertificates
                                        ELSE trustList.issuerCertificates, thumbprint)
        t0 == UA_GDSTransaction_init(sessionId)
        t1 == UA_GDSTransaction_getCertificateGroup(t0, g, store[g])
        t2 == [t1 EXCEPT !.certGroups[1].trustList =
                  Staged_removeFromTrustList(@, RemoveList(g, certificate,
                                                           isTrustedCertificate))]
        r == applyChangesToServer(t2, 1, failAt, 0)
    IN /\ UNCHANGED <<sessions, checkSessionCallbackId, rejected, channels, now>>
       /\ IF transaction.state # "FRESH"
          THEN /\ last' = Call("RemoveCertificate", 0, 0, "BadTransactionPending")
               /\ fileInfoContext' = fileInfoContext
               /\ UNCHANGED <<transaction, store, endpoints, policies, delayed>>
          ELSE IF fileInfoContext[g].openCount > 0
          THEN /\ last' = Call("RemoveCertificate", 0, 0, "BadInvalidState")
               /\ transaction' = t0
               /\ fileInfoContext' = fileInfoContext
               /\ UNCHANGED <<store, endpoints, policies, delayed>>
          ELSE IF certificate = NoCert
          THEN /\ last' = Call("RemoveCertificate", 0, 0, "BadInvalidArgument")
               /\ transaction' = t1
               /\ fileInfoContext' = fileInfoContext
               /\ UNCHANGED <<store, endpoints, policies, delayed>>
          ELSE /\ Len(delayed) < limit
               /\ last' = Call("RemoveCertificate", 0, 0, r.ret)
               /\ transaction' = r.transaction
               /\ fileInfoContext' = r.fic
               /\ store' = r.store
               /\ endpoints' = r.endpoints
               /\ policies' = r.policies
               /\ delayed' = r.delayed

\* removeCertificate goes on to the store: no transaction is running and
\* the group's openCount is 0
RemoveAdmitted(g) ==
    transaction.state = "FRESH" /\ ~(fileInfoContext[g].openCount > 0)

(* ------------------- the method nodes and their callbacks --------------- *)
\* The callback initNS0PushManagement leaves on the AddCertificate method node
\* the call names: the node of the group's TrustList object, or the node of
\* TrustListType.  The last setMethodNode_callback on a node wins.
AddCertificateCallback(g, node) ==
    IF node = "object" /\ g = DefaultUserTokenGroup THEN "removeCertificate"
    ELSE "addCertificate"

\* removeCertificate called with the arguments of AddCertificate: its
\* Thumbprint input is a ByteString, not a String
callAddCertificate(sessionId, g, node, certificate, isTrustedCertificate, failAt) ==
    IF AddCertificateCallback(g, node) = "removeCertificate"
    THEN /\ last' = Call("AddCertificate", 0, 0, "BadTypeMismatch")
         /\ fileInfoContext' = fileInfoContext
         /\ UNCHANGED <<sessions, transaction, checkSessionCallbackId, store, rejected,
                        endpoints, policies, channels, delayed, now>>
    ELSE addCertificate(sessionId, g, certificate, isTrustedCertificate, failAt)

(* ----------------------- verifyCertificate ------------------------------ *)
\* mbedtls_x509_crt_verify_with_profile against a CA list: the flags it sets.
\* NOT_TRUSTED when the certificate chains to no member of the list, EXPIRED
\* when its validity has ended (set whether or not the chain is trusted).
VerifyFlags(certificate, caList) ==
    (IF CertIssuer(certificate) \notin caList THEN {"NOT_TRUSTED"} ELSE {})
    \cup (IF certificate = CertOld THEN {"EXPIRED"} ELSE {})

\* TRUE when the verification fails: some flag is set
VerifyFails(certificate, caList) == VerifyFlags(certificate, caList) # {}

\* the status for a failed verification: only NOT_TRUSTED adds the
\* certificate to the rejected list
TranslateFlags(flags) ==
    IF "NOT_TRUSTED" \in flags THEN [ret |-> "BadCertificateUntrusted", reject |-> TRUE]
    ELSE IF "EXPIRED" \in flags THEN [ret |-> "BadCertificateTimeInvalid", reject |-> FALSE]
    ELSE [ret |-> "BadSecurityChecksFailed", reject |-> FALSE]

\* a test that looks at the two certificate lists only
NoCertificatesConfigured(st) == st.trustedCertificates = {} /\ st.issuerCertificates = {}

\* "No certificate store configured": the four lists are all empty
NoStoreConfigured(st) ==
    /\ st.trustedCertificates = {}
    /\ st.issuerCertificates = {}
    /\ st.trustedCrls = {}
    /\ st.issuerCrls = {}

\* FileCertStore_verifyCertificate: [ret, reject], reject when the certificate
\* is added to the rejected list
FileCertStore_verifyCertificate(st, certificate) ==
    LET flags1 == VerifyFlags(certificate, st.trustedCertificates)
        trusted == /\ flags1 # {}
                   /\ "EXPIRED" \notin flags1
                   /\ certificate \in st.trustedCertificates
        flags == IF trusted THEN VerifyFlags(certificate, st.issuerCertificates)
                 ELSE flags1
        mbedErr == flags # {}
        parent == CertIssuer(certificate)
        issuerKnown == \E crl \in st.trustedCrls : CrlIssuer(crl) = parent
    IN IF NoStoreConfigured(st) THEN [ret |-> "Good", reject |-> FALSE]
       ELSE IF certificate = NoCert
            THEN [ret |-> "BadSecurityChecksFailed", reject |-> FALSE]
       ELSE IF trusted /\ ~mbedErr /\ parent \in st.issuerCertificates /\ ~issuerKnown
            THEN [ret |-> "BadCertificateIssuerRevocationUnknown", reject |-> TRUE]
       ELSE IF ~trusted /\ ~mbedErr /\ parent # certificate /\ ~issuerKnown
            THEN [ret |-> "BadCertificateRevocationUnknown", reject |-> TRUE]
       ELSE IF UA_CertificateUtils_checkCA(certificate) = "Good"
            THEN [ret |-> "BadCertificateUseNotAllowed", reject |-> TRUE]
       ELSE IF mbedErr THEN TranslateFlags(flags)
       ELSE [ret |-> "Good", reject |-> FALSE]

(* --------------- the delayed callback: the channel sweep ---------------- *)
Open(ch) == channels[ch] \notin {"CLOSED", "CLOSING"}

\* a sweep that re-verifies the peer certificates whatever has changed
SweepSetVerifyAlways(changes) ==
    IF changes = UA_GDSTRANSACTIONCHANGES_NOTHING THEN {}
    ELSE {ch \in Channels :
             /\ Open(ch)
             /\ FileCertStore_verifyCertificate(store[DefaultApplicationGroup],
                                                RemoteCertificate(ch)).ret # "Good"}

\* the channels secureChannel_delayedClose shuts down for *changes
SweepSet(changes) ==
    IF changes = UA_GDSTRANSACTIONCHANGES_NOTHING THEN {}
    ELSE IF changes \in {UA_GDSTRANSACTIONCHANGES_BOTH, UA_GDSTRANSACTIONCHANGES_CERTIFICATE}
         THEN {ch \in Channels : Open(ch)}
    ELSE {ch \in Channels :
             /\ Open(ch)
             /\ FileCertStore_verifyCertificate(store[DefaultApplicationGroup],
                                                RemoteCertificate(ch)).ret # "Good"}

\* the certificates the sweep's verifyCertificate calls put on the rejected list
SweepRejected(changes) ==
    IF changes # UA_GDSTRANSACTIONCHANGES_TRUSTLIST THEN {}
    ELSE {RemoteCertificate(ch) : ch \in
             {c \in Channels :
                 /\ Open(c)
                 /\ FileCertStore_verifyCertificate(store[DefaultApplicationGroup],
                                                    RemoteCertificate(c)).reject}}

\* an addToRejectedList without the check for a duplicate
AddToRejectedListAlways(rejectedList, certificate) == Append(rejectedList, certificate)

\* FileCertStore_addToRejectedList: nothing is written when a file of the
\* directory already holds the certificate
FileCertStore_addToRejectedList(rejectedList, certificate) ==
    IF \E idx \in 1..Len(rejectedList) : rejectedList[idx] = certificate
    THEN rejectedList
    ELSE Append(rejectedList, certificate)

RECURSIVE AddAllToRejectedList(_, _)
\* addToRejectedList for each certificate of the sequence, in its order
AddAllToRejectedList(rejectedList, certificates) ==
    IF certificates = <<>> THEN rejectedList
    ELSE AddAllToRejectedList(
             FileCertStore_addToRejectedList(rejectedList, Head(certificates)),
             Tail(certificates))

\* a cleanup label that leaves the transaction as it is
SweepTransactionKeep(t) == t

\* the cleanup label of the callback: the transaction is cleared
SweepTransaction(t) == UA_GDSTransaction_clear(t)

secureChannel_delayedClose ==
    /\ Len(delayed) > 0
    /\ channels' = [ch \in Channels |->
                       IF ch \in SweepSet(Head(delayed)) THEN "CLOSING" ELSE channels[ch]]
    /\ rejected' = [rejected EXCEPT ![DefaultApplicationGroup] =
                       AddAllToRejectedList(@, SetToSeq(SweepRejected(Head(delayed))))]
    /\ transaction' = SweepTransaction(transaction)
    /\ delayed' = Tail(delayed)
    /\ last' = Call("secureChannel_delayedClose", 0, 0, "Good")
    /\ UNCHANGED <<sessions, fileInfoContext, checkSessionCallbackId, store, endpoints,
                   policies, now>>

(* --------------- the repeated callback: the session check --------------- *)
\* a loop that removes the contexts of every session but the first in the list
LiveContextsFirst(fileInfo) ==
    SelectSeq(fileInfo.fileContext,
              LAMBDA fc : fc.sessionId = fileInfo.fileContext[1].sessionId)

\* the contexts of the FileInfo whose session is still in server->sessions
LiveContexts(fileInfo) ==
    SelectSeq(fileInfo.fileContext, LAMBDA fc : fc.sessionId \in sessions)

RECURSIVE DecBy(_, _)
DecBy(n, k) == IF k = 0 THEN n ELSE DecBy(DecOpenCount(n), k - 1)

\* the loop with the decrement applied to the local copy of the FileInfo
CheckedFileInfoCopy(fileInfo) ==
    IF fileInfo.openCount = 0 THEN fileInfo
    ELSE [fileInfo EXCEPT !.fileContext = LiveContexts(fileInfo)]

\* one FileInfo after the loop over its contexts; skipped when openCount is 0
CheckedFileInfo(fileInfo) ==
    IF fileInfo.openCount = 0 THEN fileInfo
    ELSE [fileInfo EXCEPT
            !.fileContext = LiveContexts(fileInfo),
            !.openCount = DecBy(@, Len(fileInfo.fileContext) - Len(LiveContexts(fileInfo)))]

checkSessionActive ==
    LET ownerGone == transaction.state # "FRESH" /\ transaction.sessionId \notin sessions
        removeCallback ==
            /\ transaction.state = "FRESH" \/ ownerGone
            /\ \A g \in Groups : fileInfoContext[g].openCount = 0
    IN /\ checkSessionCallbackId # 0
       /\ transaction' = IF ownerGone THEN UA_GDSTransaction_clear(transaction)
                         ELSE transaction
       /\ fileInfoContext' = [g \in Groups |-> CheckedFileInfo(fileInfoContext[g])]
       /\ checkSessionCallbackId' = IF removeCallback THEN 0 ELSE checkSessionCallbackId
       /\ last' = Call("checkSessionActive", 0, 0, "Good")
       /\ UNCHANGED <<sessions, store, rejected, endpoints, policies, channels, delayed, now>>

(* ------------------------- the environment ------------------------------ *)
\* a session is closed or times out: it leaves server->sessions
closeSession(sessionId) ==
    /\ sessionId \in sessions
    /\ sessions' = sessions \ {sessionId}
    /\ last' = Call("closeSession", 0, 0, "Good")
    /\ UNCHANGED <<transaction, fileInfoContext, checkSessionCallbackId, store, rejected,
                   endpoints, policies, channels, delayed, now>>

\* the clock advances
Tick ==
    /\ now < MaxTime
    /\ now' = now + 1
    /\ last' = Call("Tick", 0, 0, "Good")
    /\ UNCHANGED <<sessions, transaction, fileInfoContext, checkSessionCallbackId, store,
                   rejected, endpoints, policies, channels, delayed>>

(* --------------------------- the inputs --------------------------------- *)
OpenModes == {UA_OPENFILEMODE_READ, WRITE_ERASE, UA_OPENFILEMODE_WRITE}

FileHandles == 1..MaxOpen

\* a trust list that only names the trusted certificates, and adds CertB to them
TrustListTrusted ==
    [EmptyTrustList(UA_TRUSTLISTMASKS_TRUSTEDCERTIFICATES)
        EXCEPT !.trustedCertificates = <<CertA, CertB, CertD>>]

\* a trust list that moves CertCA from the issuers to the trusted certificates
\* and drops CertD
TrustListMove ==
    [specifiedLists |-> UA_TRUSTLISTMASKS_ALL,
     trustedCertificates |-> <<CertA, CertCA>>, trustedCrls |-> <<CrlCA>>,
     issuerCertificates |-> <<>>, issuerCrls |-> <<>>]

\* an encoded trust list cut off inside its first array
Truncated == <<UA_TRUSTLISTMASKS_ALL, 2, CertA>>

(* ----------- the file and transaction protocol: Spec -------------------- *)
\* Sessions open, write and close the trust lists of both groups, commit, are
\* closed; the sweep and the session check run at any time.
Open_ == \E s \in sessions, g \in Groups, m \in OpenModes : openTrustList(s, g, m, MaxOpen)

OpenWithMasks ==
    \E s \in sessions, g \in Groups :
        openTrustListWithMask(s, g, UA_TRUSTLISTMASKS_ALL, MaxOpen)

Write == \E s \in sessions, g \in Groups, h \in FileHandles,
            d \in {UA_encodeBinary(TrustListTrusted), Truncated, <<>>} :
            writeTrustList(s, g, h, d)

Close == \E s \in sessions, g \in Groups, h \in FileHandles : closeTrustList(s, g, h)

CloseAndUpdate ==
    \E s \in sessions, g \in Groups, h \in FileHandles : closeAndUpdateTrustList(s, g, h)

ApplyChanges == \E s \in sessions : applyChanges(s, 0, 0, 0, MaxDelayed)

CloseSession == \E s \in sessions : closeSession(s)

Next ==
    \/ Open_
    \/ OpenWithMasks
    \/ Write
    \/ Close
    \/ CloseAndUpdate
    \/ ApplyChanges
    \/ secureChannel_delayedClose
    \/ checkSessionActive
    \/ CloseSession

Spec == Init /\ [][Next]_vars

TypeOK ==
    /\ sessions \subseteq Sessions
    /\ transaction.state \in {"FRESH", "PENDING"}
    /\ \A g \in Groups : fileInfoContext[g].openCount \in 0..(UINT16_SIZE - 1)
    /\ checkSessionCallbackId \in {0, 1}
    /\ now \in 0..MaxTime

(* ------------------- the commit and its failures: SpecCommit ------------ *)
\* One trust list is open at a time; the commit's store writes and key
\* updates may fail.
OpenForWrite == \E s \in sessions, g \in Groups : openTrustList(s, g, WRITE_ERASE, 1)

WriteTrustList ==
    \/ \E s \in sessions, g \in Groups :
          writeTrustList(s, g, 1, UA_encodeBinary(TrustListTrusted))
    \/ \E s \in sessions :
          writeTrustList(s, DefaultApplicationGroup, 1, UA_encodeBinary(TrustListMove))

CloseWrite == \E s \in sessions, g \in Groups : closeTrustList(s, g, 1)

CloseAndUpdateWrite == \E s \in sessions, g \in Groups : closeAndUpdateTrustList(s, g, 1)

UpdateCertificate ==
    \E s \in sessions, g \in Groups, ok \in BOOLEAN :
        updateCertificate(s, g, RsaSha256ApplicationCertificateType, NewServerCert,
                          "PEM", ok, MaxCertInfos)

ApplyChangesOrFail ==
    \E s \in sessions, failGroup \in 0..Len(transaction.certGroups),
       failAt \in 1..MaxFailAt, failUpdate \in 0..MaxFailUpdate :
        applyChanges(s, failGroup, failAt, failUpdate, MaxDelayed)

NextCommit ==
    \/ OpenForWrite
    \/ WriteTrustList
    \/ CloseWrite
    \/ CloseAndUpdateWrite
    \/ UpdateCertificate
    \/ ApplyChangesOrFail
    \/ secureChannel_delayedClose

SpecCommit == Init /\ [][NextCommit]_vars

(* ------------- the commit and the event loop: SpecSweep ---------------- *)
\* The commit of SpecCommit without failures; the event loop runs every
\* delayed callback it holds in its next iteration.
NextSweep ==
    \/ OpenForWrite
    \/ WriteTrustList
    \/ CloseWrite
    \/ CloseAndUpdateWrite
    \/ UpdateCertificate
    \/ ApplyChanges
    \/ secureChannel_delayedClose

SpecSweep == Init /\ [][NextSweep]_vars /\ WF_vars(secureChannel_delayedClose)

(* ------------- the methods that commit at once: SpecDirect -------------- *)
\* AddCertificate and RemoveCertificate beside one open trust list.
\* a trust list that only names the issuer certificates, and adds CertB to them
TrustListIssuers ==
    [EmptyTrustList(UA_TRUSTLISTMASKS_ISSUERCERTIFICATES)
        EXCEPT !.issuerCertificates = <<CertCA, CertB>>]

\* the thumbprints the clients send: of CertA in lower case, of CertB and of
\* CertCA in upper case
Thumbprints ==
    {<<97 + CertA, 48 + CertA>>, UA_CertificateUtils_getThumbprint(CertB),
     UA_CertificateUtils_getThumbprint(CertCA)}

OpenOne ==
    \E s \in sessions, g \in Groups, m \in {UA_OPENFILEMODE_READ, WRITE_ERASE} :
        openTrustList(s, g, m, 1)

WriteIssuers ==
    \E s \in sessions : writeTrustList(s, DefaultApplicationGroup, 1,
                                       UA_encodeBinary(TrustListIssuers))

AddCertificate ==
    \E s \in sessions, g \in Groups, node \in {"object", "type"},
       certificate \in {CertB, CertCA}, isTrustedCertificate \in BOOLEAN :
        callAddCertificate(s, g, node, certificate, isTrustedCertificate, 0)

RemoveCertificate ==
    \E s \in sessions, g \in Groups, thumbprint \in Thumbprints,
       isTrustedCertificate \in BOOLEAN :
        removeCertificate(s, g, thumbprint, isTrustedCertificate, 0, MaxDelayed)

NextDirect ==
    \/ OpenOne
    \/ CloseWrite
    \/ AddCertificate
    \/ RemoveCertificate
    \/ ApplyChanges
    \/ secureChannel_delayedClose
    \/ Tick

SpecDirect == Init /\ [][NextDirect]_vars

(* ------------- AddCertificate after a commit: SpecAdd ------------------- *)
\* AddCertificate on the lists that the commit of a written trust list left.
NextAdd ==
    \/ OpenForWrite
    \/ WriteIssuers
    \/ CloseAndUpdateWrite
    \/ ApplyChanges
    \/ secureChannel_delayedClose
    \/ AddCertificate
    \/ Tick

SpecAdd == Init /\ [][NextAdd]_vars

(* ------------- a commit before the sweep has run: SpecAgain ------------- *)
\* The commits of SpecSweep and of RemoveCertificate; a call may be handled
\* while the sweep of an earlier commit is still queued.
MaxSweeps == 2

RemoveAndCommit ==
    \E s \in sessions, thumbprint \in Thumbprints :
        removeCertificate(s, DefaultApplicationGroup, thumbprint, TRUE, 0, MaxSweeps)

ApplyChangesAgain == \E s \in sessions : applyChanges(s, 0, 0, 0, MaxSweeps)

NextAgain ==
    \/ OpenForWrite
    \/ WriteTrustList
    \/ CloseWrite
    \/ CloseAndUpdateWrite
    \/ RemoveAndCommit
    \/ ApplyChangesAgain
    \/ secureChannel_delayedClose

SpecAgain == Init /\ [][NextAgain]_vars

(* ------------- the ways to a PENDING transaction: SpecJanitor ----------- *)
\* Open, UpdateCertificate and RemoveCertificate by sessions that may be
\* closed at any time; the event loop runs the sweep it holds and the session
\* check as long as it is scheduled.
NextJanitor ==
    \/ OpenOne
    \/ CloseWrite
    \/ UpdateCertificate
    \/ RemoveCertificate
    \/ secureChannel_delayedClose
    \/ checkSessionActive
    \/ CloseSession

SpecJanitor ==
    /\ Init
    /\ [][NextJanitor]_vars
    /\ WF_vars(secureChannel_delayedClose)
    /\ WF_vars(checkSessionActive)

(* ------------- the certificate store by itself: SpecStore --------------- *)
\* The application calls setTrustList, addToTrustList and removeFromTrustList
\* of the secure-channel group directly.
StoreCall(op, trustList, r) ==
    /\ store' = [store EXCEPT ![DefaultApplicationGroup] = r.st]
    /\ last' = Call(op, trustList.specifiedLists, 0, r.ret)
    /\ fileInfoContext' = fileInfoContext
    /\ UNCHANGED <<sessions, transaction, checkSessionCallbackId, rejected, endpoints,
                   policies, channels, delayed, now>>

SetTrustList(trustList) ==
    StoreCall("setTrustList", trustList,
              FileCertStore_setTrustList(store[DefaultApplicationGroup], trustList, 0))

AddToTrustList(trustList) ==
    StoreCall("addToTrustList", trustList,
              FileCertStore_addToTrustList(store[DefaultApplicationGroup], trustList, 0))

RemoveFromTrustList(trustList) ==
    StoreCall("removeFromTrustList", trustList,
              FileCertStore_removeFromTrustList(store[DefaultApplicationGroup], trustList, 0))

\* the trust lists the calls pass: with a duplicate, with a certificate in two
\* sub-lists, with items in sub-lists that the mask does not select
TrustListInputs ==
    {[specifiedLists |-> mask, trustedCertificates |-> trustedCertificates,
      trustedCrls |-> IF trustedCertificates = <<CertCA>> THEN <<CrlCA>> ELSE <<>>,
      issuerCertificates |-> issuerCertificates,
      issuerCrls |-> IF issuerCertificates = <<CertCA>> THEN <<CrlCA>> ELSE <<>>] :
        mask \in {UA_TRUSTLISTMASKS_TRUSTEDCERTIFICATES, UA_TRUSTLISTMASKS_ISSUERCERTIFICATES,
                  UA_TRUSTLISTMASKS_ALL},
        trustedCertificates \in {<<>>, <<CertA, CertB>>, <<CertB, CertB>>, <<CertCA>>},
        issuerCertificates \in {<<>>, <<CertCA>>, <<CertB>>}}

StoreSet == \E trustList \in TrustListInputs : SetTrustList(trustList)

StoreAdd == \E trustList \in TrustListInputs : AddToTrustList(trustList)

StoreRemove == \E trustList \in TrustListInputs : RemoveFromTrustList(trustList)

NextStore ==
    \/ StoreSet
    \/ StoreAdd
    \/ StoreRemove

SpecStore == Init /\ [][NextStore]_vars

(* ------------ verification and the rejected list: SpecVerify ------------ *)
\* FileCertStore_verifyCertificate on group g with no additional issuer
\* certificates; a rejected certificate goes through addToRejectedList
VerifyCertificate(g, certificate) ==
    LET r == FileCertStore_verifyCertificate(store[g], certificate)
    IN /\ rejected' = [rejected EXCEPT ![g] =
                          IF r.reject THEN FileCertStore_addToRejectedList(@, certificate)
                          ELSE @]
       /\ last' = Call("verifyCertificate", certificate, 0, r.ret)
       /\ fileInfoContext' = fileInfoContext
       /\ UNCHANGED <<sessions, transaction, checkSessionCallbackId, store, endpoints,
                      policies, channels, delayed, now>>

\* certGroup->addToRejectedList called by itself
AddToRejectedList(g, certificate) ==
    /\ rejected' = [rejected EXCEPT ![g] = FileCertStore_addToRejectedList(@, certificate)]
    /\ last' = Call("addToRejectedList", certificate, 0, "Good")
    /\ fileInfoContext' = fileInfoContext
    /\ UNCHANGED <<sessions, transaction, checkSessionCallbackId, store, endpoints,
                   policies, channels, delayed, now>>

\* the output of the GetRejectedList method: the rejected certificates of the
\* secure-channel group followed by those of the session group
getRejectedList == rejected[DefaultApplicationGroup] \o rejected[DefaultUserTokenGroup]

\* the trust states of the verification runs, each written whole
TrustState(trustedCertificates, trustedCrls, issuerCertificates, issuerCrls) ==
    [specifiedLists |-> UA_TRUSTLISTMASKS_ALL,
     trustedCertificates |-> trustedCertificates, trustedCrls |-> trustedCrls,
     issuerCertificates |-> issuerCertificates, issuerCrls |-> issuerCrls]

TrustStates ==
    {TrustState(<<>>, <<>>, <<>>, <<>>),
     TrustState(<<>>, <<CrlCA>>, <<>>, <<>>),
     TrustState(<<CertA, CertOld>>, <<>>, <<>>, <<>>),
     TrustState(<<CertB>>, <<>>, <<>>, <<>>),
     TrustState(<<CertB>>, <<>>, <<CertCA>>, <<CrlCA>>),
     TrustState(<<CertB>>, <<CrlCA>>, <<CertCA>>, <<>>),
     TrustState(<<CertCA>>, <<CrlCA>>, <<>>, <<>>),
     TrustState(<<CertCA>>, <<>>, <<>>, <<>>)}

\* the candidates: the empty byte string, and every certificate of the runs
Candidates == {NoCert, CertA, CertB, CertCA, CertOld}

VerifySet == \E trustList \in TrustStates : SetTrustList(trustList)

VerifyAny == \E g \in Groups, certificate \in Candidates : VerifyCertificate(g, certificate)

RejectAny ==
    \E certificate \in {CertA, CertB} : AddToRejectedList(DefaultApplicationGroup, certificate)

NextVerify ==
    \/ VerifySet
    \/ VerifyAny
    \/ RejectAny

SpecVerify == Init /\ [][NextVerify]_vars

(* --------- reading a trust list file and its cursor: SpecFile ----------- *)
\* the number of bytes readTrustList copies: length (an Int32, converted to
\* size_t for the comparisons) is cut to the file's length, then to what is
\* left after the cursor
ReadLength(length, fileLength, currentPos) ==
    LET cut == IF length < 0 \/ length >= fileLength THEN fileLength ELSE length
    IN IF cut >= fileLength - currentPos THEN fileLength - currentPos ELSE cut

\* a copy that starts at the beginning of the file whatever the cursor is
ReadBufferFromStart(file, currentPos, length) == SubSeq(file, 1, length)

\* memcpy(readBuffer->data, file->data + currentPos, length)
ReadBuffer(file, currentPos, length) == SubSeq(file, currentPos + 1, currentPos + length)

\* readTrustList on a context opened for reading: the buffer it returns and
\* the cursor it leaves
ReadResult(fileContext, length) ==
    LET n == ReadLength(length, Len(fileContext.file), fileContext.currentPos)
    IN [buffer |-> IF n > 0 THEN ReadBuffer(fileContext.file, fileContext.currentPos, n)
                   ELSE <<>>,
        currentPos |-> IF n > 0 THEN fileContext.currentPos + n ELSE fileContext.currentPos]

readTrustList(sessionId, g, fileHandle, length) ==
    LET i == getFileContext(fileInfoContext[g], sessionId, fileHandle)
        fileContext == fileInfoContext[g].fileContext[i]
        r == ReadResult(fileContext, length)
    IN /\ UNCHANGED <<sessions, transaction, checkSessionCallbackId, store, rejected,
                      endpoints, policies, channels, delayed, now>>
       /\ IF i = 0
          THEN /\ last' = Call("Read", length, 0, "BadInternalError")
               /\ fileInfoContext' = fileInfoContext
          ELSE IF fileContext.openFileMode # UA_OPENFILEMODE_READ
          THEN /\ last' = Call("Read", length, 0, "BadInvalidState")
               /\ fileInfoContext' = fileInfoContext
          ELSE /\ last' = Call("Read", length, Len(r.buffer), "Good")
               /\ fileInfoContext' =
                     [fileInfoContext EXCEPT ![g].fileContext[i].currentPos = r.currentPos]

\* getPositionTrustList: the output is the cursor of the context
getPositionTrustList(sessionId, g, fileHandle) ==
    LET i == getFileContext(fileInfoContext[g], sessionId, fileHandle)
    IN /\ fileInfoContext' = fileInfoContext
       /\ UNCHANGED <<sessions, transaction, checkSessionCallbackId, store, rejected,
                      endpoints, policies, channels, delayed, now>>
       /\ IF i = 0
          THEN last' = Call("GetPosition", 0, 0, "BadInternalError")
          ELSE last' = Call("GetPosition", 0, fileInfoContext[g].fileContext[i].currentPos,
                            "Good")

\* A UA_UInt64 is kept as its two 32-bit words.  *(UA_UInt32*)input[1].data
\* reads the four bytes at the address of the UInt64: the low word in a
\* little-endian build, the high word in a big-endian build.
FirstWord(position, endian) == IF endian = "little" THEN position.lo ELSE position.hi

\* the cursor setPositionTrustList leaves for the 32-bit value it has read
ClampPosition(fileLength, position) ==
    IF fileLength < position THEN fileLength ELSE position

setPositionTrustList(sessionId, g, fileHandle, position, endian) ==
    LET i == getFileContext(fileInfoContext[g], sessionId, fileHandle)
    IN /\ UNCHANGED <<sessions, transaction, checkSessionCallbackId, store, rejected,
                      endpoints, policies, channels, delayed, now>>
       /\ IF i = 0
          THEN /\ last' = Call("SetPosition", position.lo, position.hi, "BadInternalError")
               /\ fileInfoContext' = fileInfoContext
          ELSE /\ last' = Call("SetPosition", position.lo, position.hi, "Good")
               /\ fileInfoContext' =
                     [fileInfoContext EXCEPT ![g].fileContext[i].currentPos =
                         ClampPosition(Len(fileInfoContext[g].fileContext[i].file),
                                       FirstWord(position, endian))]

\* the lengths Read is called with, and the positions SetPosition is called
\* with: [hi, lo] stands for hi * 2^32 + lo
ReadLengths == {-1, 0, 2, 20}
Positions == {[hi |-> hi, lo |-> lo] : hi \in {0, 1}, lo \in {0, 3, 20}}
Endians == {"little", "big"}

\* Open / OpenWithMasks are tried in SpecFile while fewer contexts exist
MaxFiles == 1

OpenFile ==
    \E s \in sessions, g \in Groups, m \in {UA_OPENFILEMODE_READ, WRITE_ERASE} :
        openTrustList(s, g, m, MaxFiles)

OpenFileWithMasks ==
    \E s \in sessions, g \in Groups,
       mask \in {UA_TRUSTLISTMASKS_TRUSTEDCERTIFICATES, UA_TRUSTLISTMASKS_ALL} :
        openTrustListWithMask(s, g, mask, MaxFiles)

Read ==
    \E s \in sessions, g \in Groups, h \in FileHandles, length \in ReadLengths :
        readTrustList(s, g, h, length)

GetPosition ==
    \E s \in sessions, g \in Groups, h \in FileHandles : getPositionTrustList(s, g, h)

SetPosition ==
    \E s \in sessions, g \in Groups, h \in FileHandles, position \in Positions,
       endian \in Endians :
        setPositionTrustList(s, g, h, position, endian)

NextFile ==
    \/ OpenFile
    \/ OpenFileWithMasks
    \/ Read
    \/ GetPosition
    \/ SetPosition
    \/ Write
    \/ Close
    \/ CloseAndUpdate

SpecFile == Init /\ [][NextFile]_vars

(* ------------- very many contexts on one group: SpecWrap ---------------- *)
\* Contexts that one session opened one after the other with the same
\* snapshot differ in the handle only.  SpecWrap keeps such contexts as one
\* entry of the list, a run: the fields of a context, with `fileHandle` the
\* lowest handle of the run, and `count`, the number of its contexts.  The run
\* stands for the contexts with the handles fileHandle + count - 1 down to
\* fileHandle, in the order of the list (LIST_INSERT_HEAD puts the newest
\* first).  openCount is the UA_UInt16 of the code.
RunTop(run) == run.fileHandle + run.count - 1

\* the number of contexts in a list of runs
RECURSIVE RunContexts(_)
RunContexts(runs) ==
    IF runs = <<>> THEN 0 ELSE Head(runs).count + RunContexts(Tail(runs))

\* createFileHandleId on a list of runs: the smallest id from 1 upward that
\* no context has.  It is 1, or the id that follows the top of a run.
createFileHandleIdInRuns(fileInfo) ==
    LET runs == fileInfo.fileContext
        InUse(id) == \E k \in 1..Len(runs) : id \in runs[k].fileHandle..RunTop(runs[k])
        free == {id \in {1} \cup {RunTop(runs[k]) + 1 : k \in 1..Len(runs)} : ~InUse(id)}
    IN CHOOSE id \in free : \A j \in free : id <= j

\* getFileContext on a list of runs: the index of the first run of the session
\* that holds the handle, 0 for NULL
getFileContextInRuns(fileInfo, sessionId, fileHandle) ==
    LET runs == fileInfo.fileContext
        hit == {k \in 1..Len(runs) :
                   /\ fileHandle \in runs[k].fileHandle..RunTop(runs[k])
                   /\ runs[k].sessionId = sessionId}
    IN IF hit = {} THEN 0 ELSE CHOOSE k \in hit : \A j \in hit : k <= j

\* the new context, as a run of one
NewRun(fileInfo, sessionId, mode, g) ==
    [file |-> UA_encodeBinary(FileCertStore_getTrustList(store[g], UA_TRUSTLISTMASKS_ALL)),
     fileHandle |-> createFileHandleIdInRuns(fileInfo),
     count |-> 1,
     sessionId |-> sessionId,
     currentPos |-> 0,
     openFileMode |-> mode]

\* openTrustList on a list of runs
openTrustListInRuns(sessionId, g, fileOpenMode, limit) ==
    LET ret == OpenCheck(g, fileOpenMode)
    IN IF ret # "Good"
       THEN /\ last' = Call("Open", fileOpenMode, 0, ret)
            /\ fileInfoContext' = fileInfoContext
            /\ UNCHANGED <<sessions, transaction, checkSessionCallbackId,
                           store, rejected, endpoints, policies, channels, delayed, now>>
       ELSE /\ RunContexts(fileInfoContext[g].fileContext) < limit
            /\ transaction' = IF fileOpenMode = WRITE_ERASE
                              THEN UA_GDSTransaction_init(sessionId) ELSE transaction
            /\ checkSessionCallbackId' = ScheduleCheckSession
            /\ fileInfoContext' =
                  [fileInfoContext EXCEPT
                      ![g] = InsertContext(@, NewRun(@, sessionId, fileOpenMode, g))]
            /\ last' = Call("Open", fileOpenMode, 0, "Good")
            /\ UNCHANGED <<sessions, store, rejected, endpoints, policies, channels,
                           delayed, now>>

\* what LIST_REMOVE of the context with the handle leaves of its run: the
\* contexts above the handle, then the contexts below it
SplitRun(run, fileHandle) ==
    (IF RunTop(run) > fileHandle
     THEN <<[run EXCEPT !.fileHandle = fileHandle + 1, !.count = RunTop(run) - fileHandle]>>
     ELSE <<>>)
    \o (IF fileHandle > run.fileHandle
        THEN <<[run EXCEPT !.count = fileHandle - run.fileHandle]>>
        ELSE <<>>)

\* LIST_REMOVE and openCount -= 1 on a list of runs
RemoveFromRuns(fileInfo, k, fileHandle) ==
    [fileInfo EXCEPT
        !.openCount = DecOpenCount(@),
        !.fileContext = SubSeq(@, 1, k - 1) \o SplitRun(@[k], fileHandle)
                            \o SubSeq(@, k + 1, Len(@))]

\* closeTrustList on a list of runs
closeTrustListInRuns(sessionId, g, fileHandle) ==
    LET k == getFileContextInRuns(fileInfoContext[g], sessionId, fileHandle)
    IN IF k = 0
       THEN /\ last' = Call("Close", 0, 0, "BadInternalError")
            /\ UNCHANGED <<sessions, transaction, fileInfoContext, checkSessionCallbackId,
                           store, rejected, endpoints, policies, channels, delayed, now>>
       ELSE /\ transaction' = CloseTransaction(fileInfoContext[g].fileContext[k].openFileMode)
            /\ fileInfoContext' =
                  [fileInfoContext EXCEPT ![g] = RemoveFromRuns(@, k, fileHandle)]
            /\ last' = Call("Close", fileInfoContext[g].fileContext[k].openFileMode,
                             Len(transaction.certGroups), "Good")
            /\ UNCHANGED <<sessions, checkSessionCallbackId, store, rejected, endpoints,
                           policies, channels, delayed, now>>

\* The server after OpenAtStart calls of Open for reading on the
\* secure-channel group by session 1 and no other call: one run with the
\* handles 1..OpenAtStart and the snapshot of the trust list; the session
\* check is scheduled.
OpenAtStart == UINT16_SIZE - 2

\* the most contexts the calls of SpecWrap open
MaxWrapOpen == UINT16_SIZE + 1

InitWrap ==
    /\ sessions = Sessions
    /\ transaction = FreshTransaction
    /\ fileInfoContext =
          [g \in Groups |->
              IF g = DefaultApplicationGroup
              THEN [openCount |-> OpenAtStart, lastUpdateTime |-> 0,
                    fileContext |->
                       <<[file |-> UA_encodeBinary(FileCertStore_getTrustList(
                                       InitialApplicationStore, UA_TRUSTLISTMASKS_ALL)),
                          fileHandle |-> 1, count |-> OpenAtStart, sessionId |-> 1,
                          currentPos |-> 0, openFileMode |-> UA_OPENFILEMODE_READ]>>]
              ELSE [openCount |-> 0, lastUpdateTime |-> 0, fileContext |-> <<>>]]
    /\ checkSessionCallbackId = 1
    /\ store = [g \in Groups |->
                  IF g = DefaultApplicationGroup THEN InitialApplicationStore
                  ELSE EmptyStore]
    /\ rejected = [g \in Groups |-> <<>>]
    /\ endpoints = [e \in Endpoints |-> OldServerCert]
    /\ policies = [sp \in Policies |-> OldServerCert]
    /\ channels = [ch \in Channels |-> "OPEN"]
    /\ delayed = <<>>
    /\ now = 0
    /\ last = Call("Open", UA_OPENFILEMODE_READ, 0, "Good")

OpenMore ==
    \E s \in sessions, m \in {UA_OPENFILEMODE_READ, WRITE_ERASE} :
        openTrustListInRuns(s, DefaultApplicationGroup, m, MaxWrapOpen)

\* Close of the handles that the calls of SpecWrap create
CloseSome ==
    \E s \in sessions, h \in (OpenAtStart + 1)..MaxWrapOpen :
        closeTrustListInRuns(s, DefaultApplicationGroup, h)

AddToOpenGroup ==
    \E s \in sessions, isTrustedCertificate \in BOOLEAN :
        callAddCertificate(s, DefaultApplicationGroup, "object", CertB,
                           isTrustedCertificate, 0)

RemoveFromOpenGroup ==
    \E s \in sessions :
        removeCertificate(s, DefaultApplicationGroup, UA_CertificateUtils_getThumbprint(CertA),
                          TRUE, 0, MaxDelayed)

NextWrap ==
    \/ OpenMore
    \/ CloseSome
    \/ AddToOpenGroup
    \/ RemoveFromOpenGroup
    \/ secureChannel_delayedClose

SpecWrap == InitWrap /\ [][NextWrap]_vars

(* ============================ the claims ================================ *)
\* the contexts of group g opened in mode WRITE | ERASE_EXISTING
WriteContexts(g) ==
    {i \in 1..Len(fileInfoContext[g].fileContext) :
        fileInfoContext[g].fileContext[i].openFileMode = WRITE_ERASE}

\* everything but `last` and the transaction
Committed ==
    <<sessions, fileInfoContext, checkSessionCallbackId, store, rejected, endpoints,
      policies, channels, delayed, now>>

\* C1: whenever a context opened in mode WRITE | ERASE_EXISTING exists on a
\* group, the transaction is PENDING and its owner is the session of that
\* context.  The program does not keep this: see C1_Reached.
C1_WriteOpenImpliesPending ==
    \A g \in Groups : \A i \in WriteContexts(g) :
        /\ transaction.state = "PENDING"
        /\ transaction.sessionId = fileInfoContext[g].fileContext[i].sessionId

\* the sweep has cleared the transaction of a session whose write context is
\* still open
C1_Reached ==
    /\ last.op = "secureChannel_delayedClose"
    /\ transaction.state = "FRESH"
    /\ \E g \in Groups : WriteContexts(g) # {}

C3_OpenForWriting ==
    [][ /\ \A g \in Groups :
              OpenCheck(g, WRITE_ERASE) =
                 IF transaction.state = "PENDING" THEN "BadTransactionPending"
                 ELSE IF Len(fileInfoContext[g].fileContext) # 0 THEN "BadNotWritable"
                 ELSE "Good"
        /\ (last'.op = "Open" /\ last'.mode = WRITE_ERASE /\ last'.ret = "Good") =>
              /\ transaction.state = "FRESH"
              /\ transaction'.state = "PENDING"
              /\ \E g \in Groups :
                    /\ fileInfoContext[g].fileContext = <<>>
                    /\ Len(fileInfoContext'[g].fileContext) = 1
                    /\ fileInfoContext'[g].fileContext[1].openFileMode = WRITE_ERASE
                    /\ fileInfoContext'[g].fileContext[1].sessionId = transaction'.sessionId
                    /\ \A h \in Groups : h # g => fileInfoContext'[h] = fileInfoContext[h]
        /\ (last'.op = "Open" /\ last'.mode = WRITE_ERASE /\ last'.ret # "Good") =>
              /\ last'.ret = IF transaction.state = "PENDING" THEN "BadTransactionPending"
                             ELSE "BadNotWritable"
              /\ fileInfoContext' = fileInfoContext
              /\ transaction' = transaction
      ]_vars

\* a session has opened a group for writing and owns the transaction
C3_Reached ==
    /\ last = Call("Open", WRITE_ERASE, 0, "Good")
    /\ transaction.state = "PENDING"
    /\ transaction.sessionId \in sessions

\* C4: Open in mode READ on a group succeeds if and only if no context opened
\* for writing exists on the group, and fails with BadNotReadable when one
\* exists.  The program returns another status: see C4_Reached.
C4_OpenForReading ==
    \A g \in Groups :
        OpenCheck(g, UA_OPENFILEMODE_READ) =
            IF WriteContexts(g) # {} THEN "BadNotReadable" ELSE "Good"

\* an Open for reading has been refused while a group is open for writing
C4_Reached ==
    /\ last = Call("Open", UA_OPENFILEMODE_READ, 0, "BadTransactionPending")
    /\ \E g \in Groups : WriteContexts(g) # {}

\* C5: Open, Write and Close leave the live trust lists and the endpoints'
\* certificates as they were; the Close of a context opened for writing leaves
\* the transaction FRESH and without staged state, and ApplyChanges of any
\* session then returns BadNothingToDo.
C5_AbortByClose ==
    [][ /\ last'.op \in {"Open", "Write", "Close"} =>
              /\ store' = store
              /\ endpoints' = endpoints
        /\ (last'.op = "Close" /\ last'.ret = "Good" /\ last'.mode = WRITE_ERASE) =>
              /\ transaction'.state = "FRESH"
              /\ transaction'.certGroups = <<>>
              /\ transaction'.certificateInfos = <<>>
              /\ \A s \in Sessions : ApplyCheck(s)' = "BadNothingToDo"
      ]_vars

\* a context opened for writing has been closed after a Write staged its group
C5_Reached ==
    /\ last = Call("Close", WRITE_ERASE, 1, "Good")
    /\ transaction = FreshTransaction

\* the lists ApplyChanges is to publish for group g: the staged lists of the
\* group, the live lists when the group is not staged
Published(g) ==
    IF StagedIndex(transaction, g) # 0
    THEN Staged_getTrustList(transaction.certGroups[StagedIndex(transaction, g)].trustList,
                             UA_TRUSTLISTMASKS_ALL)
    ELSE FileCertStore_getTrustList(store[g], UA_TRUSTLISTMASKS_ALL)

\* C6: after ApplyChanges returns Good, the live trust list of the staged
\* group, read with mask ALL, holds exactly the staged lists, and the live
\* trust list of the other group is unchanged.  The program does not keep
\* this: see C6_Reached.
C6_CommitPublishesStaged ==
    [][ (last'.op = "ApplyChanges" /\ last'.ret = "Good") =>
           \A g \in Groups :
              FileCertStore_getTrustList(store'[g], UA_TRUSTLISTMASKS_ALL) = Published(g)
      ]_vars

\* ApplyChanges has returned Good and a certificate of the staged list is in
\* no live list
C6_Reached ==
    /\ last = Call("ApplyChanges", 0, 0, "Good")
    /\ StagedIndex(transaction, DefaultApplicationGroup) # 0
    /\ CertCA \in transaction.certGroups[StagedIndex(transaction,
                      DefaultApplicationGroup)].trustList.trustedCertificates
    /\ CertCA \notin store[DefaultApplicationGroup].trustedCertificates

\* C7: when ApplyChanges returns a status other than Good, no live trust list
\* and no endpoint's certificate differs from its value before the call.  The
\* program does not keep this: see C7_Reached.
C7_AllOrNothing ==
    [][ (last'.op = "ApplyChanges" /\ last'.ret # "Good") =>
           /\ store' = store
           /\ endpoints' = endpoints
      ]_vars

\* ApplyChanges has failed and has left the endpoints with different
\* certificates
C7_Reached ==
    /\ last.op = "ApplyChanges"
    /\ last.ret # "Good"
    /\ \E e, f \in Endpoints : endpoints[e] = NewServerCert /\ endpoints[f] = OldServerCert
                                /\ EndpointPolicy(e) = EndpointPolicy(f)

\* the statuses of applyChanges' own checks
PreconditionStatus == {"BadNothingToDo", "BadUserAccessDenied", "BadInvalidState"}

\* C8: when a step of the commit fails, the transaction is FRESH and without
\* staged state when ApplyChanges returns.  The program does not keep this:
\* see C8_Reached.
C8_FailedCommitAborts ==
    [][ (last'.op = "ApplyChanges" /\ last'.ret \notin PreconditionStatus \cup {"Good"}) =>
           transaction' = FreshTransaction
      ]_vars

\* a commit has failed and the transaction is still PENDING with its staged
\* certificate
C8_Reached ==
    /\ last.op = "ApplyChanges"
    /\ last.ret \notin PreconditionStatus \cup {"Good"}
    /\ transaction.state = "PENDING"
    /\ Len(transaction.certificateInfos) > 0

\* C9: ApplyChanges returns BadNothingToDo to every caller when the
\* transaction is FRESH, and BadUserAccessDenied when the transaction is
\* PENDING and the caller is not its owner; in both cases nothing changes.
C9_ApplyChangesChecks ==
    [][ /\ \A s \in Sessions :
              /\ transaction.state = "FRESH" => ApplyCheck(s) = "BadNothingToDo"
              /\ (transaction.state = "PENDING" /\ transaction.sessionId # s) =>
                    ApplyCheck(s) = "BadUserAccessDenied"
        /\ (last'.op = "ApplyChanges" /\ last'.ret = "BadNothingToDo") =>
              /\ transaction.state = "FRESH"
              /\ UNCHANGED <<transaction, Committed>>
        /\ (last'.op = "ApplyChanges" /\ last'.ret = "BadUserAccessDenied") =>
              /\ transaction.state = "PENDING"
              /\ UNCHANGED <<transaction, Committed>>
      ]_vars

\* a session that does not own the transaction has been refused and the
\* owner's staged group is still there
C9_Reached ==
    /\ last = Call("ApplyChanges", 0, 0, "BadUserAccessDenied")
    /\ transaction.state = "PENDING"
    /\ Len(transaction.certGroups) > 0

\* the staged groups that have a context
StagedOpen ==
    {i \in 1..Len(transaction.certGroups) :
        Len(fileInfoContext[transaction.certGroups[i].certificateGroupId].fileContext) > 0}

ValidUpdateBy(x) ==
    updateCertificate(x, DefaultApplicationGroup, RsaSha256ApplicationCertificateType,
                      NewServerCert, "PEM", TRUE, MaxCertInfos)

\* UpdateCertificate of session x with any of the arguments tried
UpdateBy(x) ==
    \E g \in Groups, ok \in BOOLEAN :
        updateCertificate(x, g, RsaSha256ApplicationCertificateType, NewServerCert,
                          "PEM", ok, MaxCertInfos)

\* C11: while the transaction is PENDING, UpdateCertificate of a session that
\* is not the owner returns BadTransactionPending for valid arguments, never
\* returns Good and leaves the transaction as it was; UpdateCertificate of the
\* owner with valid arguments returns Good and appends its certificate to the
\* staged updates of the same transaction.
C11_UpdateWhilePending ==
    [][ \A x \in Sessions :
           (transaction.state = "PENDING" /\ last'.op = "UpdateCertificate") =>
              /\ (transaction.sessionId # x /\ ValidUpdateBy(x)) =>
                    last'.ret = "BadTransactionPending"
              /\ (transaction.sessionId # x /\ UpdateBy(x)) =>
                    /\ last'.ret # "Good"
                    /\ transaction' = transaction
              /\ (transaction.sessionId = x /\ ValidUpdateBy(x)) =>
                    /\ last'.ret = "Good"
                    /\ transaction' =
                          [transaction EXCEPT !.certificateInfos =
                              Append(@, [certificateType |-> RsaSha256ApplicationCertificateType,
                                         certificate |-> NewServerCert,
                                         privateKey |-> "key"])]
      ]_vars

\* a session that does not own the transaction has been refused: the staged
\* group of the owner is there and no certificate update is staged
C11_Reached ==
    /\ last.op = "UpdateCertificate"
    /\ last.ret = "BadTransactionPending"
    /\ transaction.state = "PENDING"
    /\ Len(transaction.certGroups) = 1
    /\ transaction.certificateInfos = <<>>

\* C12: after ApplyChanges has returned Good the transaction becomes FRESH
\* without any further call, as the event loop runs the delayed callback; an
\* Open for writing on a group without contexts then succeeds.
C12_SweepFreesTransaction ==
    (last.op = "ApplyChanges" /\ last.ret = "Good")
        ~> (/\ transaction.state = "FRESH"
            /\ \A g \in Groups :
                  fileInfoContext[g].fileContext = <<>> => OpenCheck(g, WRITE_ERASE) = "Good")

\* the sweep of a commit has run and a session has opened a group for writing
\* again
C12_Reached ==
    /\ last.op = "Open"
    /\ last.mode = WRITE_ERASE
    /\ last.ret = "Good"
    /\ \E ch \in Channels : channels[ch] = "CLOSING"

\* what a commit of the transaction contains
CommitKind ==
    IF transaction.certificateInfos # <<>>
    THEN IF transaction.certGroups # <<>> THEN "BOTH" ELSE "CERTIFICATE"
    ELSE IF transaction.certGroups # <<>> THEN "TRUSTLIST" ELSE "NOTHING"

\* whether the sweep of a commit of this kind is to shut the channel down
MustShutDown(kind, ch) ==
    /\ channels[ch] \notin {"CLOSED", "CLOSING"}
    /\ \/ kind \in {"BOTH", "CERTIFICATE"}
       \/ /\ kind = "TRUSTLIST"
          /\ FileCertStore_verifyCertificate(store[DefaultApplicationGroup],
                                             RemoteCertificate(ch)).ret # "Good"

\* C13: a successful commit hands the sweep what it contained; the sweep shuts
\* down every channel that is not CLOSED or CLOSING when the commit contained
\* a certificate update, the channels whose peer certificate fails the
\* verification against the live Application-group lists when it contained
\* trust lists only, and none when it contained nothing; every other channel
\* stays as it is.
C13_SweepSet ==
    [][ /\ (last'.op = "ApplyChanges" /\ last'.ret = "Good") =>
              delayed' = Append(delayed, CommitKind)
        /\ last'.op = "secureChannel_delayedClose" =>
              \A ch \in Channels :
                 channels'[ch] = IF MustShutDown(Head(delayed), ch) THEN "CLOSING"
                                 ELSE channels[ch]
      ]_vars

\* the sweep of a commit of trust lists alone has shut down the channel whose
\* peer certificate is no longer trusted and has left the channel whose peer
\* certificate is trusted
C13_Reached ==
    /\ last.op = "secureChannel_delayedClose"
    /\ endpoints = [e \in Endpoints |-> OldServerCert]
    /\ CertA \in store[DefaultApplicationGroup].trustedCertificates
    /\ CertD \notin store[DefaultApplicationGroup].trustedCertificates
    /\ channels["chA"] = "OPEN"
    /\ channels["chD"] = "CLOSING"

\* a handler has returned Good from applyChangesToServer
CommitDone(l) == l.op \in {"ApplyChanges", "RemoveCertificate"} /\ l.ret = "Good"

\* C14: every successful commit (ApplyChanges or RemoveCertificate returning
\* Good) queues the sweep once, nothing else queues a sweep, and no commit is
\* applied twice: the call handled right after a successful commit, before the
\* sweep, is never an ApplyChanges that commits the same transaction again.
C14_CommitOnce ==
    [][ /\ CommitDone(last') => Len(delayed') = Len(delayed) + 1
        /\ Len(delayed') > Len(delayed) => CommitDone(last')
        /\ (CommitDone(last) /\ Len(delayed) > 0) =>
              ~(last'.op = "ApplyChanges" /\ last'.ret = "Good")
      ]_vars

\* the sweeps of two commits of the same staged trust list are queued, the
\* second by an ApplyChanges
C14_Reached ==
    /\ last.op = "ApplyChanges"
    /\ last.ret = "Good"
    /\ delayed = <<UA_GDSTRANSACTIONCHANGES_TRUSTLIST, UA_GDSTRANSACTIONCHANGES_TRUSTLIST>>
    /\ Len(transaction.certGroups) = 1

\* the transaction is PENDING and its owner is no longer a session
OwnerGone == transaction.state = "PENDING" /\ transaction.sessionId \notin sessions

C16_OwnerGoneAborts ==
    /\ []((\/ transaction.state = "PENDING" /\ delayed = <<>>
           \/ \E g \in Groups : fileInfoContext[g].fileContext # <<>>)
          => checkSessionCallbackId # 0)
    /\ (OwnerGone ~> transaction.state = "FRESH")

\* a RemoveCertificate that found no certificate has left the transaction
\* PENDING; its owner is gone and the session check is not scheduled
C16_Reached ==
    /\ OwnerGone
    /\ checkSessionCallbackId = 0
    /\ delayed = <<>>
    /\ \A g \in Groups : fileInfoContext[g].fileContext = <<>>

\* C17: while any handle is open on a group (READ or WRITE, of any session,
\* the caller's included), AddCertificate of a certificate that may be added
\* and RemoveCertificate on that group return BadInvalidState and leave the
\* group's live lists as they are.
C17_OpenHandleBlocks ==
    [][ \A s \in Sessions, g \in Groups :
          (fileInfoContext[g].fileContext # <<>>
           /\ last'.op \in {"AddCertificate", "RemoveCertificate"}) =>
             /\ callAddCertificate(s, g, "type", CertB, TRUE, 0) =>
                   (last'.ret = "BadInvalidState" /\ store'[g] = store[g])
             /\ \A thumbprint \in Thumbprints, isTrustedCertificate \in BOOLEAN :
                   removeCertificate(s, g, thumbprint, isTrustedCertificate, 0, MaxDelayed)
                   => (last'.ret = "BadInvalidState" /\ store'[g] = store[g])
      ]_vars

\* AddCertificate on DefaultApplicationGroup was answered BadTransactionPending
\* while session 1 holds the WRITE handle of the group
C17_Reached ==
    /\ last.op = "AddCertificate"
    /\ last.ret = "BadTransactionPending"
    /\ WriteContexts(DefaultApplicationGroup) # {}
    /\ transaction.state = "PENDING"
    /\ transaction.sessionId = 1
    /\ store[DefaultApplicationGroup] = InitialApplicationStore

\* the statuses of a call that is rejected for its inputs or for the state
RejectStatus ==
    {"BadTypeMismatch", "BadInvalidArgument", "BadInvalidState", "BadTransactionPending",
     "BadUserAccessDenied", "BadNothingToDo", "BadNotWritable", "BadNotReadable"}

\* C18: a call rejected with one of these statuses leaves the transaction,
\* both FileInfos and all live stores as they were; in particular a refused
\* RemoveCertificate leaves a FRESH transaction FRESH.
C18_RejectKeepsState ==
    [][ last'.ret \in RejectStatus =>
          /\ transaction' = transaction
          /\ fileInfoContext' = fileInfoContext
          /\ store' = store
      ]_vars

\* RemoveCertificate has been refused, for an open file or for a thumbprint
\* that matches nothing, and the transaction is PENDING with no trust list
\* open for writing and no sweep queued
C18_Reached ==
    /\ last.op = "RemoveCertificate"
    /\ last.ret \in {"BadInvalidState", "BadInvalidArgument"}
    /\ transaction.state = "PENDING"
    /\ \A g \in Groups : WriteContexts(g) = {}
    /\ delayed = <<>>

\* C19: when AddCertificate(certificate, isTrustedCertificate = TRUE) returns
\* Good on a group, the group's trusted certificates contain the certificate,
\* every other item of its four lists and the store of the other group are
\* unchanged, its lastUpdateTime is the current time and not earlier than
\* before, its openCount stays 0 and the transaction stays FRESH.
C19_AddCertificate ==
    [][ \A s \in Sessions, g \in Groups, node \in {"object", "type"},
           certificate \in {CertB, CertCA} :
          (last'.op = "AddCertificate" /\ last'.ret = "Good"
           /\ callAddCertificate(s, g, node, certificate, TRUE, 0)) =>
             /\ certificate \in store'[g].trustedCertificates
             /\ store'[g].trustedCertificates \ {certificate} =
                   store[g].trustedCertificates \ {certificate}
             /\ store'[g].trustedCrls = store[g].trustedCrls
             /\ store'[g].issuerCertificates = store[g].issuerCertificates
             /\ store'[g].issuerCrls = store[g].issuerCrls
             /\ \A h \in Groups \ {g} : store'[h] = store[h]
             /\ fileInfoContext'[g].lastUpdateTime = now
             /\ fileInfoContext'[g].lastUpdateTime >= fileInfoContext[g].lastUpdateTime
             /\ fileInfoContext'[g].openCount = 0
             /\ transaction' = transaction
             /\ transaction.state = "FRESH"
      ]_vars

\* AddCertificate of CertB has returned Good on DefaultApplicationGroup after
\* the clock has advanced
C19_Reached ==
    /\ last.op = "AddCertificate"
    /\ last.ret = "Good"
    /\ now > 0
    /\ fileInfoContext[DefaultApplicationGroup].lastUpdateTime = now
    /\ CertB \in store[DefaultApplicationGroup].issuerCertificates
    /\ CertB \notin store[DefaultApplicationGroup].trustedCertificates

\* the thumbprint names the certificate, whatever the case of its letters
Names(thumbprint, certificate) ==
    thumbprint \in {<<65 + certificate, 48 + certificate>>,
                    <<97 + certificate, 48 + certificate>>}

\* C20: RemoveCertificate with the transaction FRESH and no handle open on the
\* group, for a thumbprint that names, in either case, a certificate of the
\* selected list, commits at once: it returns Good and queues the sweep, the
\* selected list has lost the certificate and the matching CRL list the CRLs
\* getCertificateCrls returns for it, every other item and the other group are
\* unchanged, and the group's lastUpdateTime is the current time.
C20_RemoveCertificate ==
    [][ (last'.op = "RemoveCertificate" /\ transaction.state = "FRESH") =>
        \A s \in Sessions, g \in Groups, thumbprint \in Thumbprints,
           isTrustedCertificate \in BOOLEAN, certificate \in {CertA, CertB, CertCA} :
          LET crls == SeqToSet(getCertificateCrls(store[g], certificate,
                                                  isTrustedCertificate))
          IN (/\ transaction.state = "FRESH"
              /\ fileInfoContext[g].fileContext = <<>>
              /\ Names(thumbprint, certificate)
              /\ certificate \in (IF isTrustedCertificate THEN store[g].trustedCertificates
                                  ELSE store[g].issuerCertificates)
              /\ removeCertificate(s, g, thumbprint, isTrustedCertificate, 0, MaxDelayed))
             => /\ last'.ret = "Good"
                /\ delayed' = Append(delayed, UA_GDSTRANSACTIONCHANGES_TRUSTLIST)
                /\ store'[g] =
                      IF isTrustedCertificate
                      THEN [store[g] EXCEPT !.trustedCertificates = @ \ {certificate},
                                            !.trustedCrls = @ \ crls]
                      ELSE [store[g] EXCEPT !.issuerCertificates = @ \ {certificate},
                                            !.issuerCrls = @ \ crls]
                /\ \A h \in Groups \ {g} : store'[h] = store[h]
                /\ fileInfoContext'[g].lastUpdateTime = now
      ]_vars

\* RemoveCertificate has removed CertA, named in lower case, from the trusted
\* certificates and CertCA with its CRL from the issuers, the last of them
\* after the clock has advanced
C20_Reached ==
    /\ last.op = "RemoveCertificate"
    /\ last.ret = "Good"
    /\ store[DefaultApplicationGroup] =
          [trustedCertificates |-> {CertD}, trustedCrls |-> {},
           issuerCertificates |-> {}, issuerCrls |-> {}]
    /\ now > 0
    /\ fileInfoContext[DefaultApplicationGroup].lastUpdateTime = now

\* the trust lists of the secure-channel group, before and after the step
Stored == store[DefaultApplicationGroup]

\* C21: after setTrustList(X) every sub-list that X.specifiedLists selects
\* holds exactly the items X names for it, without duplicates, and every
\* other sub-list is as it was; so getTrustList with mask ALL after
\* setTrustList with mask ALL gives back the four sets of X.
C21_SetTrustListRoundTrip ==
    [][ last'.op = "setTrustList" =>
        \A trustList \in TrustListInputs :
           SetTrustList(trustList) =>
              \A k \in 1..Len(ListFields) :
                 SeqToSet(FileCertStore_getTrustList(Stored', UA_TRUSTLISTMASKS_ALL)[ListFields[k]])
                    = IF HasBit(trustList.specifiedLists, ListBits[k])
                      THEN SeqToSet(trustList[ListFields[k]])
                      ELSE Stored[ListFields[k]]
      ]_vars

\* setTrustList with mask ALL was given CertCA as trusted and as issuer
\* certificate, with its CRL in both CRL lists: the CRL is in the issuer CRLs
\* and CertCA is not in the issuer certificates
C21_Reached ==
    /\ last.op = "setTrustList"
    /\ last.ret = "Good"
    /\ last.mode = UA_TRUSTLISTMASKS_ALL
    /\ Stored = [trustedCertificates |-> {CertCA}, trustedCrls |-> {CrlCA},
                 issuerCertificates |-> {}, issuerCrls |-> {CrlCA}]

\* C22: addToTrustList(X) returns Good, and addToTrustList(X) applied again to
\* the lists it has left returns Good and leaves all four sub-lists the same.
C22_AddToTrustListIdempotent ==
    [][ last'.op = "addToTrustList" =>
        \A trustList \in TrustListInputs :
           AddToTrustList(trustList) =>
              /\ last'.ret = "Good"
              /\ FileCertStore_addToTrustList(Stored', trustList, 0) =
                    [st |-> Stored', ret |-> "Good"]
      ]_vars

\* addToTrustList with mask ALL has added CertB to the trusted certificates
\* and nothing else
C22_Reached ==
    /\ last.op = "addToTrustList"
    /\ last.ret = "Good"
    /\ last.mode = UA_TRUSTLISTMASKS_ALL
    /\ Stored = [InitialApplicationStore EXCEPT !.trustedCertificates = @ \cup {CertB}]

\* C23: removeFromTrustList(X) returns Good, takes out of every sub-list that
\* X.specifiedLists selects exactly the items of X that are stored there, and
\* leaves every other item and every sub-list not selected as it was; when no
\* item of X is stored nothing changes.
C23_RemoveFromTrustList ==
    [][ last'.op = "removeFromTrustList" =>
        \A trustList \in TrustListInputs :
           RemoveFromTrustList(trustList) =>
              /\ last'.ret = "Good"
              /\ \A k \in 1..Len(ListFields) :
                    Stored'[ListFields[k]] =
                       IF HasBit(trustList.specifiedLists, ListBits[k])
                       THEN Stored[ListFields[k]] \ SeqToSet(trustList[ListFields[k]])
                       ELSE Stored[ListFields[k]]
      ]_vars

\* removeFromTrustList with the mask TrustedCertificates has emptied the
\* issuer certificates and the issuer CRLs and left the trusted certificates
C23_Reached ==
    /\ last.op = "removeFromTrustList"
    /\ last.mode = UA_TRUSTLISTMASKS_TRUSTEDCERTIFICATES
    /\ Stored = [InitialApplicationStore EXCEPT !.issuerCertificates = {},
                                                !.issuerCrls = {}]

\* C24: on each group the rejected list never holds two byte-equal entries,
\* and a step of verifyCertificate or addToRejectedList keeps every entry
\* that was on the list (the list only grows, in place).
C24_RejectedListUniqueMonotone ==
    [][\A g \in Groups :
          /\ \A i, j \in 1..Len(rejected'[g]) :
                rejected'[g][i] = rejected'[g][j] => i = j
          /\ Len(rejected[g]) <= Len(rejected'[g])
          /\ \A i \in 1..Len(rejected[g]) : rejected'[g][i] = rejected[g][i]]_vars

\* C24 is exercised: a certificate on the rejected list was rejected again
\* and the list kept its two entries
C24_Reached ==
    /\ last.op = "verifyCertificate"
    /\ last.mode = CertB
    /\ last.ret = "BadCertificateUntrusted"
    /\ rejected[DefaultApplicationGroup] = <<CertB, CertCA>>

\* the statuses verifyCertificate gives a certificate it does not accept
CertificateOutcomes ==
    {"BadCertificateUntrusted", "BadCertificateTimeInvalid", "BadCertificateRevoked",
     "BadCertificateRevocationUnknown", "BadCertificateIssuerRevocationUnknown",
     "BadCertificateUseNotAllowed", "BadSecurityChecksFailed"}

\* C25: when verifyCertificate returns one of the certificate outcomes that
\* are not Good, the candidate is on the rejected list of the group on return.
C25_RejectedOnEveryFailure ==
    [][last'.op = "verifyCertificate" =>
          \A g \in Groups, certificate \in Candidates :
              (VerifyCertificate(g, certificate) /\ last'.ret \in CertificateOutcomes)
                  => certificate \in SeqToSet(rejected'[g])]_vars

\* C25 is exercised: an expired certificate of the trusted list was verified
\* and the call returned BadCertificateTimeInvalid
C25_Reached ==
    /\ last.op = "verifyCertificate"
    /\ last.mode = CertOld
    /\ last.ret = "BadCertificateTimeInvalid"
    /\ CertOld \in store[DefaultApplicationGroup].trustedCertificates

\* C26: with both rejected lists empty, verifyCertificate of a non-empty
\* candidate on a group whose four lists are empty, followed by
\* GetRejectedList, gives one entry, the candidate.
C26_EmptyStoreRejects ==
    [][last'.op = "verifyCertificate" =>
          \A g \in Groups, certificate \in Candidates \ {NoCert} :
              (/\ VerifyCertificate(g, certificate)
               /\ store[g] = EmptyStore
               /\ getRejectedList = <<>>)
                  => getRejectedList' = <<certificate>>]_vars

\* C26 is exercised: a non-empty candidate was verified on the secure-channel
\* group with its four lists empty and the rejected lists empty
C26_Reached ==
    /\ last.op = "verifyCertificate"
    /\ last.mode = CertB
    /\ store[DefaultApplicationGroup] = EmptyStore
    /\ getRejectedList = <<>>

\* the certificate is in the trusted list (as far as it is still valid, a
\* trust anchor), or its issuer is
ChainsToTrusted(st, certificate) ==
    \/ certificate \in st.trustedCertificates
    \/ CertIssuer(certificate) \in st.trustedCertificates

\* C27: a group whose four lists are empty accepts every candidate; a group
\* with a non-empty list does not accept a candidate that is neither in the
\* trusted list nor issued by a certificate of the trusted list.
C27_AcceptAllOnlyWhenEmpty ==
    [][last'.op = "verifyCertificate" =>
          \A g \in Groups, certificate \in Candidates :
              VerifyCertificate(g, certificate) =>
                  /\ store[g] = EmptyStore => last'.ret = "Good"
                  /\ (store[g] # EmptyStore /\ ~ChainsToTrusted(store[g], certificate))
                        => last'.ret # "Good"]_vars

\* C27 is exercised: with only a CRL in the store, a certificate that the
\* empty store accepts was not accepted
C27_Reached ==
    /\ last.op = "verifyCertificate"
    /\ last.mode = CertA
    /\ last.ret = "BadCertificateUntrusted"
    /\ store[DefaultApplicationGroup] = [EmptyStore EXCEPT !.trustedCrls = {CrlCA}]
    /\ rejected[DefaultApplicationGroup] = <<CertA>>

\* C27 is exercised on its other side: the empty store accepted the empty
\* byte string
C27_ReachedEmpty ==
    /\ last.op = "verifyCertificate"
    /\ last.mode = NoCert
    /\ last.ret = "Good"
    /\ store[DefaultApplicationGroup] = EmptyStore

\* C28: a candidate that is byte-equal to a member of the trusted
\* certificates never gets BadCertificateUntrusted.
C28_TrustedNeverUntrusted ==
    [][last'.op = "verifyCertificate" =>
          \A g \in Groups, certificate \in Candidates :
              (VerifyCertificate(g, certificate)
               /\ certificate \in store[g].trustedCertificates)
                  => last'.ret # "BadCertificateUntrusted"]_vars

\* C28 is exercised: a certificate of the trusted list whose issuer is in
\* the issuer list was verified, and the answer was not Untrusted
C28_Reached ==
    /\ last.op = "verifyCertificate"
    /\ last.mode = CertB
    /\ last.ret = "BadCertificateIssuerRevocationUnknown"
    /\ store[DefaultApplicationGroup].trustedCertificates = {CertB}
    /\ store[DefaultApplicationGroup].issuerCertificates = {CertCA}

\* the certificate the staged updates of transaction t leave for the
\* certificate type: that of the last staged update of the type, else old
StagedFor(t, certificateType, old) ==
    LET matching == {i \in 1..Len(t.certificateInfos) :
                        t.certificateInfos[i].certificateType = certificateType}
    IN IF matching = {} THEN old
       ELSE t.certificateInfos[CHOOSE i \in matching : \A j \in matching : j <= i].certificate

\* C29: UpdateCertificate only stages.  No step but ApplyChanges changes an
\* endpoint's server certificate or a security policy's certificate, and a
\* successful ApplyChanges gives the staged certificate to exactly the
\* endpoints (and policies) whose policy's certificateTypeId is the staged
\* type; every other endpoint keeps its certificate.
C29_UpdateOnlyStages ==
    [][/\ last'.op # "ApplyChanges" => (endpoints' = endpoints /\ policies' = policies)
       /\ (last'.op = "ApplyChanges" /\ last'.ret = "Good") =>
             /\ \A e \in Endpoints :
                   endpoints'[e] = StagedFor(transaction,
                                             PolicyCertificateTypeId(EndpointPolicy(e)),
                                             endpoints[e])
             /\ \A sp \in Policies :
                   policies'[sp] = StagedFor(transaction, PolicyCertificateTypeId(sp),
                                             policies[sp])]_vars

\* C29 is exercised: a staged update was committed; the two endpoints of the
\* matching policy have the new certificate and the third has the old one
C29_Reached ==
    /\ last.op = "ApplyChanges"
    /\ last.ret = "Good"
    /\ endpoints = <<NewServerCert, NewServerCert, OldServerCert>>
    /\ policies = [sp \in Policies |-> IF sp = "Basic256Sha256" THEN NewServerCert
                                       ELSE OldServerCert]

\* C29, the time before the commit: a successful UpdateCertificate has staged
\* the new certificate and every endpoint still has the old one
C29_Staged ==
    /\ last.op = "UpdateCertificate"
    /\ last.ret = "Good"
    /\ Len(transaction.certificateInfos) = 1
    /\ \A e \in Endpoints : endpoints[e] = OldServerCert

\* C30: a successful Open or OpenWithMasks puts a context on its group whose
\* handle is at least 1, is the handle of no context that was open on that
\* group, and is the smallest such value; so the handles of the contexts of
\* one group are pairwise different.  The other group's handles play no part.
C30_SmallestUnusedHandle ==
    [][(last'.op \in {"Open", "OpenWithMasks"} /\ last'.ret = "Good") =>
          \A g \in Groups :
              LET before == fileInfoContext[g].fileContext
                  after == fileInfoContext'[g].fileContext
                  used == {before[i].fileHandle : i \in 1..Len(before)}
              IN Len(after) > Len(before) =>
                    /\ Head(after).fileHandle >= 1
                    /\ Head(after).fileHandle \notin used
                    /\ \A id \in 1..(Head(after).fileHandle - 1) : id \in used
                    /\ \A i, j \in 1..Len(after) :
                          after[i].fileHandle = after[j].fileHandle => i = j]_vars

\* C30 is exercised: the handle 1 of a closed context was given out again
\* while the context with handle 2 is still open on the group
C30_Reached ==
    /\ last.op \in {"Open", "OpenWithMasks"}
    /\ last.ret = "Good"
    /\ Len(fileInfoContext[DefaultApplicationGroup].fileContext) = 2
    /\ fileInfoContext[DefaultApplicationGroup].fileContext[1].fileHandle = 1
    /\ fileInfoContext[DefaultApplicationGroup].fileContext[2].fileHandle = 2

\* C30, the two groups: handle 1 is open on both at once
C30_BothGroups ==
    /\ last.op \in {"Open", "OpenWithMasks"}
    /\ last.ret = "Good"
    /\ \A g \in Groups :
          /\ Len(fileInfoContext[g].fileContext) = 1
          /\ fileInfoContext[g].fileContext[1].fileHandle = 1

\* the smaller of two numbers
Min(a, b) == IF a <= b THEN a ELSE b

\* C31: Read(handle, n) with n >= 0 on a context opened for reading, with
\* cursor c and a file of L bytes, returns the bytes c .. c + min(n, L - c)
\* of the file and moves the cursor there (nothing is returned and the
\* cursor stays for n = 0 or c = L); on a context opened for writing it
\* returns BadInvalidState; the cursor never passes L; and the file of a
\* context is the one captured when it was opened: no step changes it.
C31_ReadFromCursor ==
    [][/\ \A g \in Groups :
             LET before == fileInfoContext[g].fileContext
                 after == fileInfoContext'[g].fileContext
             IN /\ \A j \in 1..Len(after) : after[j].currentPos <= Len(after[j].file)
                /\ \A i \in 1..Len(before), j \in 1..Len(after) :
                      before[i].fileHandle = after[j].fileHandle
                          => before[i].file = after[j].file
       /\ last'.op = "Read" =>
             \A s \in sessions, g \in Groups, h \in FileHandles,
                n \in ReadLengths \ {-1} :
                 LET i == getFileContext(fileInfoContext[g], s, h)
                     fileContext == fileInfoContext[g].fileContext[i]
                     c == fileContext.currentPos
                     take == Min(n, Len(fileContext.file) - c)
                 IN (readTrustList(s, g, h, n) /\ i # 0) =>
                       IF fileContext.openFileMode = UA_OPENFILEMODE_READ
                       THEN /\ last'.ret = "Good"
                            /\ ReadResult(fileContext, n).buffer =
                                  [k \in 1..take |-> fileContext.file[c + k]]
                            /\ fileInfoContext'[g].fileContext[i].currentPos = c + take
                       ELSE /\ last'.ret = "BadInvalidState"
                            /\ fileInfoContext' = fileInfoContext]_vars

\* C31 is exercised: Reads of 2 bytes after a SetPosition to 3 have moved
\* the cursor of a context opened for reading to 7
C31_Reached ==
    /\ last.op = "Read"
    /\ last.mode = 2
    /\ last.staged = 2
    /\ last.ret = "Good"
    /\ \E i \in 1..Len(fileInfoContext[DefaultApplicationGroup].fileContext) :
          /\ fileInfoContext[DefaultApplicationGroup].fileContext[i].currentPos = 7
          /\ Len(fileInfoContext[DefaultApplicationGroup].fileContext[i].file) = 9
          /\ fileInfoContext[DefaultApplicationGroup].fileContext[i].openFileMode
                = UA_OPENFILEMODE_READ

\* C31 at the end of the file: a Read has returned fewer bytes than asked for
C31_ReachedEnd ==
    /\ last.op = "Read"
    /\ last.mode = 20
    /\ last.staged = 1
    /\ last.ret = "Good"

\* C32: after SetPosition(handle, p) the cursor, which is what GetPosition
\* returns, is min(p, L) for every 64-bit p and file length L; every p above
\* L, those of 2^32 and more included, gives L.
C32_SetPositionClamps ==
    [][(last'.op = "SetPosition" /\ last'.ret = "Good") =>
          \A s \in sessions, g \in Groups, h \in FileHandles, position \in Positions,
             endian \in Endians :
              LET i == getFileContext(fileInfoContext[g], s, h)
                  L == Len(fileInfoContext[g].fileContext[i].file)
              IN (setPositionTrustList(s, g, h, position, endian) /\ i # 0) =>
                    fileInfoContext'[g].fileContext[i].currentPos =
                        IF position.hi > 0 \/ position.lo > L THEN L ELSE position.lo]_vars

\* C32 is exercised: SetPosition was called with the position 2^32 on an
\* open context
C32_Reached ==
    /\ last.op = "SetPosition"
    /\ last.ret = "Good"
    /\ last.mode = 0
    /\ last.staged = 1

\* C32 within 32 bits: a SetPosition to 20 has put the cursor at the end of
\* a file of 9 bytes
C32_ReachedClamped ==
    /\ last.op = "SetPosition"
    /\ last.ret = "Good"
    /\ last.mode = 20
    /\ last.staged = 0
    /\ \E i \in 1..Len(fileInfoContext[DefaultApplicationGroup].fileContext) :
          /\ fileInfoContext[DefaultApplicationGroup].fileContext[i].currentPos = 9
          /\ Len(fileInfoContext[DefaultApplicationGroup].fileContext[i].file) = 9

C33_ReachedFresh ==
    /\ last.op = "Open"
    /\ last.mode = UA_OPENFILEMODE_WRITE
    /\ last.ret = "BadInvalidState"
    /\ transaction.state = "FRESH"

\* session s has opened no context with handle h on group g
NotOpenedBy(s, g, h) ==
    \A i \in 1..Len(fileInfoContext[g].fileContext) :
        \/ fileInfoContext[g].fileContext[i].fileHandle # h
        \/ fileInfoContext[g].fileContext[i].sessionId # s

\* the step is a call of the file method op by session s with handle h on
\* group g
FileCall(op, s, g, h) ==
    CASE op = "Read" -> \E length \in ReadLengths : readTrustList(s, g, h, length)
      [] op = "Write" -> \E data \in {UA_encodeBinary(TrustListTrusted), Truncated} :
                            writeTrustList(s, g, h, data)
      [] op = "Close" -> closeTrustList(s, g, h)
      [] op = "CloseAndUpdate" -> closeAndUpdateTrustList(s, g, h)
      [] op = "GetPosition" -> getPositionTrustList(s, g, h)
      [] op = "SetPosition" -> \E position \in Positions, endian \in Endians :
                                  setPositionTrustList(s, g, h, position, endian)
      [] OTHER -> FALSE

\* C34: Read, Write of data that is not empty, Close, CloseAndUpdate,
\* GetPosition and SetPosition with a handle that the calling session has not
\* opened on the group (a handle of another session included) return
\* BadInternalError and change no context, openCount, cursor or transaction.
C34_HandleOfOwnSessionOnly ==
    [][last'.op \in {"Read", "Write", "Close", "CloseAndUpdate", "GetPosition",
                     "SetPosition"} =>
          \A s \in sessions, g \in Groups, h \in FileHandles :
              (NotOpenedBy(s, g, h) /\ FileCall(last'.op, s, g, h)) =>
                  /\ last'.ret = "BadInternalError"
                  /\ fileInfoContext' = fileInfoContext
                  /\ transaction' = transaction]_vars

\* C34 is exercised: the only context is held by session 1 for writing, the
\* other session is alive, and a Close was refused
C34_Reached ==
    /\ last.op = "Close"
    /\ last.ret = "BadInternalError"
    /\ sessions = Sessions
    /\ Len(fileInfoContext[DefaultApplicationGroup].fileContext) = 1
    /\ fileInfoContext[DefaultApplicationGroup].fileContext[1].sessionId = 1
    /\ fileInfoContext[DefaultApplicationGroup].fileContext[1].openFileMode = WRITE_ERASE
    /\ transaction.state = "PENDING"

\* C35: the AddCertificate method of the DefaultUserTokenGroup trust list
\* object runs the add-certificate handler: a call does what addCertificate
\* does for that group, so a valid trusted certificate, with no transaction
\* and no open handle, ends in the trusted certificates of the user-token
\* store.
C35_UserTokenAddCertificate ==
    [][last'.op = "AddCertificate" =>
          \A s \in Sessions, certificate \in {CertB, CertCA},
             isTrustedCertificate \in BOOLEAN :
              callAddCertificate(s, DefaultUserTokenGroup, "object", certificate,
                                 isTrustedCertificate, 0)
                  => /\ addCertificate(s, DefaultUserTokenGroup, certificate,
                                       isTrustedCertificate, 0)
                     /\ AddCheck(DefaultUserTokenGroup, certificate, isTrustedCertificate)
                            = "Good"
                          => certificate \in store'[DefaultUserTokenGroup].trustedCertificates
      ]_vars

\* C35 is exercised: an AddCertificate call was answered by the handler that
\* expects a thumbprint
C35_Reached ==
    /\ last.op = "AddCertificate"
    /\ last.ret = "BadTypeMismatch"
    /\ transaction.state = "FRESH"
    /\ \A g \in Groups : fileInfoContext[g].openCount = 0

\* the step is a call of the method op by session s
MethodCall(op, s) ==
    CASE op = "Open" -> \E g \in Groups : openTrustList(s, g, WRITE_ERASE, 1)
      [] op = "Write" ->
            \/ \E g \in Groups : writeTrustList(s, g, 1, UA_encodeBinary(TrustListTrusted))
            \/ writeTrustList(s, DefaultApplicationGroup, 1, UA_encodeBinary(TrustListMove))
      [] op = "Close" -> \E g \in Groups : closeTrustList(s, g, 1)
      [] op = "CloseAndUpdate" -> \E g \in Groups : closeAndUpdateTrustList(s, g, 1)
      [] op = "UpdateCertificate" ->
            \E g \in Groups, ok \in BOOLEAN :
                updateCertificate(s, g, RsaSha256ApplicationCertificateType, NewServerCert,
                                  "PEM", ok, MaxCertInfos)
      [] op = "ApplyChanges" ->
            \E failGroup \in 0..Len(transaction.certGroups), failAt \in 1..MaxFailAt,
               failUpdate \in 0..MaxFailUpdate :
                applyChanges(s, failGroup, failAt, failUpdate, MaxDelayed)
      [] OTHER -> FALSE

\* C36: while the transaction is PENDING, a method call by a session that is
\* not its owner changes nothing of it: not the staged trust lists, not the
\* staged certificates, not the owner, not the state.
C36_OnlyOwnerChangesTransaction ==
    [][(transaction.state = "PENDING" /\ transaction' # transaction) =>
          \A s \in sessions \ {transaction.sessionId} : ~MethodCall(last'.op, s)]_vars

\* C36 is exercised: a transaction of session 1 is PENDING with a staged
\* certificate while session 2 holds a context opened for writing
C36_Reached ==
    /\ transaction.state = "PENDING"
    /\ transaction.sessionId = 1
    /\ Len(transaction.certificateInfos) = 1
    /\ sessions = Sessions
    /\ \E g \in Groups :
          /\ Len(fileInfoContext[g].fileContext) = 1
          /\ fileInfoContext[g].fileContext[1].sessionId = 2
          /\ fileInfoContext[g].fileContext[1].openFileMode = WRITE_ERASE

\* the trust list that a context opened for reading serves: the live list of
\* the group, filtered by the mask the context was opened with
ServesLiveList(st, fileContext) ==
    fileContext.file = UA_encodeBinary(FileCertStore_getTrustList(st, fileContext.file[1]))

\* C37: a step taken while a context is open on a group leaves the live trust
\* list of the group as it is, and after every step the snapshot of each
\* context opened for reading is the encoding of the group's live trust list,
\* filtered by the mask of the open.
C37_LiveListFrozenWhileOpen ==
    [][\A g \in Groups :
          /\ Len(fileInfoContext[g].fileContext) > 0 => store'[g] = store[g]
          /\ \A i \in 1..Len(fileInfoContext'[g].fileContext) :
                fileInfoContext'[g].fileContext[i].openFileMode = UA_OPENFILEMODE_READ
                    => ServesLiveList(store'[g], fileInfoContext'[g].fileContext[i])
      ]_vars

\* C37 is exercised: AddCertificate has stored a certificate in the live
\* list of a group while contexts were open on the group for reading
C37_Reached ==
    /\ last.op = "AddCertificate"
    /\ last.ret = "Good"
    /\ \E g \in Groups :
          /\ CertB \in store[g].trustedCertificates
          /\ \E i \in 1..Len(fileInfoContext[g].fileContext) :
                /\ fileInfoContext[g].fileContext[i].openFileMode = UA_OPENFILEMODE_READ
                /\ ~ServesLiveList(store[g], fileInfoContext[g].fileContext[i])

\* C39: the openCount of each group is the number of its contexts, however
\* many are open, so that a group with an open context admits no Open for
\* writing, no AddCertificate and no RemoveCertificate.
C39_OpenCountNeverWraps ==
    \A g \in Groups :
        /\ fileInfoContext[g].openCount = RunContexts(fileInfoContext[g].fileContext)
        /\ RunContexts(fileInfoContext[g].fileContext) > 0
              => /\ OpenCheck(g, WRITE_ERASE) # "Good"
                 /\ AddCheck(g, CertB, TRUE) # "Good"
                 /\ ~RemoveAdmitted(g)

\* C39 is exercised: 65536 contexts are open on a group and a call of Open
\* for writing on it has been answered
C39_Reached ==
    /\ last.op = "Open"
    /\ last.mode = WRITE_ERASE
    /\ \E g \in Groups : RunContexts(fileInfoContext[g].fileContext) >= UINT16_SIZE

\* C38: a call of Open, OpenWithMasks, AddCertificate or RemoveCertificate
\* that finds the transaction PENDING returns BadTransactionPending and
\* leaves the openCount and the contexts of both groups and the live trust
\* lists as they are.
C38_PendingRefusesAll ==
    [][(/\ transaction.state = "PENDING"
        /\ last'.op \in {"Open", "OpenWithMasks", "AddCertificate", "RemoveCertificate"})
          => /\ last'.ret = "BadTransactionPending"
             /\ fileInfoContext' = fileInfoContext
             /\ store' = store
      ]_vars

\* C38 is exercised: AddCertificate was called while a transaction was
\* PENDING for the session that has a group open for writing
C38_Reached ==
    /\ last.op = "AddCertificate"
    /\ last.ret # "Good"
    /\ transaction.state = "PENDING"
    /\ \E g \in Groups : WriteContexts(g) # {}

\* the part of C38 on Open and OpenWithMasks
C38_OpenRefused ==
    [][(transaction.state = "PENDING" /\ last'.op \in {"Open", "OpenWithMasks"})
          => /\ last'.ret = "BadTransactionPending"
             /\ fileInfoContext' = fileInfoContext
             /\ store' = store
      ]_vars

\* the part of C38 on AddCertificate, for the calls that pass a certificate
\* and isTrustedCertificate = TRUE
C38_AddCertificateRefused ==
    [][(transaction.state = "PENDING" /\ last'.op = "AddCertificate")
          => \A s \in Sessions, g \in Groups, node \in {"object", "type"},
                certificate \in {CertB, CertCA} :
                 callAddCertificate(s, g, node, certificate, TRUE, 0)
                    => last'.ret = "BadTransactionPending"
      ]_vars

\* the part of C38 on RemoveCertificate, and the live lists under every call
C38_RemoveCertificateRefused ==
    [][(/\ transaction.state = "PENDING"
        /\ last'.op \in {"Open", "OpenWithMasks", "AddCertificate", "RemoveCertificate"})
          => /\ last'.op = "RemoveCertificate" => last'.ret = "BadTransactionPending"
             /\ fileInfoContext' = fileInfoContext
             /\ store' = store
      ]_vars

\* no item is twice in the sequence
NoDuplicate(q) == \A i, j \in 1..Len(q) : q[i] = q[j] => i = j

\* C40: in the trust list of each store, as getTrustList reads it, no
\* certificate is both a trusted and an issuer certificate, and neither list
\* of certificates holds a certificate twice.
C40_CertificateListsDisjoint ==
    \A g \in Groups :
        LET trustList == FileCertStore_getTrustList(store[g], UA_TRUSTLISTMASKS_ALL)
        IN /\ SeqToSet(trustList.trustedCertificates)
                 \cap SeqToSet(trustList.issuerCertificates) = {}
           /\ NoDuplicate(trustList.trustedCertificates)
           /\ NoDuplicate(trustList.issuerCertificates)

\* C40 is exercised: setTrustList of all four lists was passed CertB twice in
\* the trusted certificates; the store holds it once
C40_Reached ==
    /\ last = Call("setTrustList", UA_TRUSTLISTMASKS_ALL, 0, "Good")
    /\ store[DefaultApplicationGroup].trustedCertificates = {CertB}
    /\ store[DefaultApplicationGroup].issuerCertificates = {}

\* C40 is exercised: addToTrustList was passed CertCA for both lists of
\* certificates; the store holds it as a trusted certificate only
C40_ReachedBoth ==
    /\ last = Call("addToTrustList", UA_TRUSTLISTMASKS_ALL, 0, "Good")
    /\ store[DefaultApplicationGroup].trustedCertificates = {CertCA}
    /\ store[DefaultApplicationGroup].issuerCertificates = {}

====
